---- MODULE Spec2Model ----
(***************************************************************************)
(* A model of the SOP builder: the Document Store rows, the Block Service  *)
(* (api/services/sop_service/block_service.py), the conversation Tool      *)
(* Layer (conversation_builder/sop_tools.py) and the orchestration graph   *)
(* (conversation_builder/sop_graph.py).                                    *)
(*                                                                         *)
(* The specifications share the variables:                                 *)
(*   Spec       calls of the Block Service on two documents                *)
(*   SpecTools  calls of the Tool Layer on one document                    *)
(*   SpecGraph  start/message calls driving the orchestration graph        *)
(*   SpecAssemble  validation and assembly of one stored document          *)
(*   SpecTexts  the text functions applied to one user message             *)
(***************************************************************************)
EXTENDS Integers, Sequences, FiniteSets, TLC

VARIABLES
    documents,     \* documents table: id -> [document_type, document_key, version]
    blocks,        \* document_blocks table: a set of rows
    nextBlockId,   \* next primary key of document_blocks
    nextDocId,     \* next primary key of documents
    now,           \* the clock, in seconds (datetime.now().timestamp())
    autoflush,     \* sessionmaker(autoflush=...) of the Block Service's session
    sharedSession, \* the Tool Layer calls run in one session (identity map kept)
    threads,       \* checkpointed GraphState per thread_id
    pc,            \* node the running turn executes next, or "idle"
    turn,          \* the running (or last) external call
    callers,       \* overlapping append requests: each one's position and what it read
    last           \* the last operation: its arguments and the state it started from

vars == <<documents, blocks, nextBlockId, nextDocId, now, autoflush, sharedSession, threads, pc, turn, callers, last>>

dbVars == <<documents, blocks, nextBlockId, nextDocId>>
graphVars == <<threads, pc, turn>>

(***************************************************************************)
(* Bounds of the model                                                     *)
(***************************************************************************)
MaxCreated == 3      \* block rows inserted in one behaviour of Spec / SpecTools
MaxTurns == 3        \* external calls in one behaviour of SpecGraph
MaxSupersteps == 6   \* node executions of one graph run before the framework stops it
MaxLen == 3          \* tokens of the user message of SpecTexts

(***************************************************************************)
(* Rows                                                                    *)
(***************************************************************************)
DocumentBlockModel(id, document_id, block_type, block_order, text, step_number, status) ==
    [id |-> id, document_id |-> document_id, block_type |-> block_type,
     block_order |-> block_order, text |-> text, step_number |-> step_number,
     status |-> status]

DocumentModel(document_type, document_key) ==
    [document_type |-> document_type, document_key |-> document_key, version |-> 1]

DocBlocks(B, document_id) == {b \in B : b.document_id = document_id}

SetMax(S) == CHOOSE m \in S : \A n \in S : n <= m

\* order_by(block_order.desc()).first(), then (max + 1) if a row exists else 1
NextOrder(B, document_id) ==
    LET rows == DocBlocks(B, document_id)
    IN IF rows = {} THEN 1 ELSE SetMax({b.block_order : b \in rows}) + 1

\* The results an ORDER BY block_order query may return: ties have no defined order.
OrderedByBlockOrder(S) ==
    {s \in [1..Cardinality(S) -> S] :
        /\ \A i, j \in 1..Cardinality(S) : i # j => s[i] # s[j]
        /\ \A i, j \in 1..Cardinality(S) : i < j => s[i].block_order <= s[j].block_order}

\* The history record of an operation
Op(op, document_id, arg, ok, id) ==
    [op |-> op, doc |-> document_id, arg |-> arg, ok |-> ok, id |-> id,
     pre |-> blocks, msgs |-> <<>>, goto |-> "", trace |-> <<>>, out |-> <<>>,
     docs |-> DOMAIN documents, questions |-> <<>>]

(***************************************************************************)
(* Block Service                                                           *)
(***************************************************************************)
Mutant_reorder_blocks_for_insert(B, document_id, position) ==
    {IF b.document_id = document_id /\ b.block_order > position
        THEN [b EXCEPT !.block_order = @ + 1] ELSE b : b \in B}

_reorder_blocks_for_insert(B, document_id, position) ==
    {IF b.document_id = document_id /\ b.block_order >= position
        THEN [b EXCEPT !.block_order = @ + 1] ELSE b : b \in B}

\* rows is the query result; enumerate(rows, 1) numbers it
_reorder_blocks_after_delete(B, rows) ==
    {IF \E i \in DOMAIN rows : rows[i].id = b.id
        THEN [b EXCEPT !.block_order = CHOOSE i \in DOMAIN rows : rows[i].id = b.id]
        ELSE b : b \in B}

add_block(document_id, block_type, content, has_position, position) ==
    IF document_id \notin DOMAIN documents
    THEN /\ last' = Op("add_block", document_id, position, FALSE, 0)
         /\ UNCHANGED <<blocks, nextBlockId>>
    ELSE LET shifted == IF has_position
                        THEN _reorder_blocks_for_insert(blocks, document_id, position)
                        ELSE blocks
             block_order == IF has_position THEN position ELSE NextOrder(blocks, document_id)
         IN /\ blocks' = shifted \cup
                  {DocumentBlockModel(nextBlockId, document_id, block_type, block_order, content, 0, "")}
            /\ nextBlockId' = nextBlockId + 1
            /\ last' = Op(IF has_position THEN "add_block_at" ELSE "add_block",
                          document_id, position, TRUE, nextBlockId)

delete_block(block_id) ==
    IF ~\E b \in blocks : b.id = block_id
    THEN /\ last' = Op("delete_block", 0, block_id, FALSE, 0)
         /\ UNCHANGED <<blocks, nextBlockId>>
    ELSE LET block == CHOOSE b \in blocks : b.id = block_id
             document_id == block.document_id
             \* db.delete(block) reaches the database before the renumbering query
             \* only when the session flushes before queries
             visible == IF autoflush THEN blocks \ {block} ELSE blocks
         IN \E rows \in OrderedByBlockOrder(DocBlocks(visible, document_id)) :
              /\ blocks' = {b \in _reorder_blocks_after_delete(visible, rows) : b.id # block_id}
              /\ last' = Op("delete_block", document_id, block_id, TRUE, block_id)
              /\ UNCHANGED nextBlockId

\* update that also resets the block's order
Mutant_update_block(block_id, content) ==
    IF ~\E b \in blocks : b.id = block_id
    THEN /\ last' = Op("update_block", 0, block_id, FALSE, 0)
         /\ UNCHANGED <<blocks, nextBlockId>>
    ELSE LET block == CHOOSE b \in blocks : b.id = block_id
         IN /\ blocks' = (blocks \ {block}) \cup
                            {[block EXCEPT !.text = content, !.step_number = 0,
                                           !.block_order = 1]}
            /\ last' = Op("update_block", block.document_id, block_id, TRUE, block_id)
            /\ UNCHANGED nextBlockId

update_block(block_id, content) ==
    IF ~\E b \in blocks : b.id = block_id
    THEN /\ last' = Op("update_block", 0, block_id, FALSE, 0)
         /\ UNCHANGED <<blocks, nextBlockId>>
    ELSE LET block == CHOOSE b \in blocks : b.id = block_id
         IN /\ blocks' = (blocks \ {block}) \cup
                            {[block EXCEPT !.text = content, !.step_number = 0]}
            /\ last' = Op("update_block", block.document_id, block_id, TRUE, block_id)
            /\ UNCHANGED nextBlockId

\* for block_order in block_orders: the entry is applied when block_id and order
\* are both truthy and a block of that id exists, in whatever document
RECURSIVE ApplyBlockOrders(_, _, _)
ApplyBlockOrders(B, block_orders, i) ==
    IF i > Len(block_orders) THEN B
    ELSE LET block_id == block_orders[i].block_id
             new_order == block_orders[i].order
         IN ApplyBlockOrders(
                IF block_id # 0 /\ new_order # 0
                THEN {IF b.id = block_id THEN [b EXCEPT !.block_order = new_order] ELSE b :
                        b \in B}
                ELSE B,
                block_orders, i + 1)

Mutant_reorder_blocks(document_id, block_orders) ==
    /\ blocks' = ApplyBlockOrders(blocks, block_orders, 1)
    /\ last' = Op("reorder_blocks", document_id, block_orders,
                  document_id \in DOMAIN documents, 0)
    /\ UNCHANGED nextBlockId

reorder_blocks(document_id, block_orders) ==
    IF document_id \notin DOMAIN documents
    THEN /\ last' = Op("reorder_blocks", document_id, block_orders, FALSE, 0)
         /\ UNCHANGED <<blocks, nextBlockId>>
    ELSE /\ blocks' = ApplyBlockOrders(blocks, block_orders, 1)
         /\ last' = Op("reorder_blocks", document_id, block_orders, TRUE, 0)
         /\ UNCHANGED nextBlockId

\* duplicate that puts the copy right after the original
Mutant_duplicate_block(block_id) ==
    IF ~\E b \in blocks : b.id = block_id
    THEN /\ last' = Op("duplicate_block", 0, block_id, FALSE, 0)
         /\ UNCHANGED <<blocks, nextBlockId>>
    ELSE LET original_block == CHOOSE b \in blocks : b.id = block_id
         IN /\ blocks' = blocks \cup
                    {[original_block EXCEPT !.id = nextBlockId, !.block_order = @ + 1]}
            /\ nextBlockId' = nextBlockId + 1
            /\ last' = Op("duplicate_block", original_block.document_id, block_id,
                          TRUE, nextBlockId)

duplicate_block(block_id) ==
    IF ~\E b \in blocks : b.id = block_id
    THEN /\ last' = Op("duplicate_block", 0, block_id, FALSE, 0)
         /\ UNCHANGED <<blocks, nextBlockId>>
    ELSE LET original_block == CHOOSE b \in blocks : b.id = block_id
             new_order == NextOrder(blocks, original_block.document_id)
         IN /\ blocks' = blocks \cup
                    {[original_block EXCEPT !.id = nextBlockId, !.block_order = new_order]}
            /\ nextBlockId' = nextBlockId + 1
            /\ last' = Op("duplicate_block", original_block.document_id, block_id,
                          TRUE, nextBlockId)

(***************************************************************************)
(* Tool Layer.  A tool maps the store it is called on to the set of stores *)
(* it may leave (one, unless a query result's order is not determined),    *)
(* with the id of the block it returns.                                    *)
(***************************************************************************)
Store == [blocks |-> blocks, nextBlockId |-> nextBlockId]

BlockResult(B, nid, block_id, ok) ==
    [blocks |-> B, nextBlockId |-> nid, block_id |-> block_id, ok |-> ok]

\* order_by(block_order.asc()) then .first(): a row of least order
FirstByOrder(rows) == {b \in rows : \A c \in rows : b.block_order <= c.block_order}

\* sorted(rows, key = step_number): a stable sort of a result of undetermined order
OrderedByStepNumber(S) ==
    {s \in [1..Cardinality(S) -> S] :
        /\ \A i, j \in 1..Cardinality(S) : i # j => s[i] # s[j]
        /\ \A i, j \in 1..Cardinality(S) : i < j => s[i].step_number <= s[j].step_number}

\* the "append at end" fragment: new_order = last.block_order + 1 if last else 1
AppendBlock(st, document_id, block_type, text, step_number, status) ==
    BlockResult(
        st.blocks \cup {DocumentBlockModel(st.nextBlockId, document_id, block_type,
                                           NextOrder(st.blocks, document_id),
                                           text, step_number, status)},
        st.nextBlockId + 1, st.nextBlockId, TRUE)

OfType(B, document_id, block_type) ==
    {b \in DocBlocks(B, document_id) : b.block_type = block_type}

\* DocumentTypeEnum(i.document_type), SOP when the value is no member
DocumentTypes == {"sop", "procedure", "workflow", "checklist", "manual", "policy",
                  "guideline", "template", "other"}

create_or_get_document(D, nid, document_key, document_type) ==
    LET doc_type == IF document_type \in DocumentTypes THEN document_type ELSE "sop"
        same == {d \in DOMAIN D : D[d].document_key = document_key}
        newest == {d \in same : \A e \in same : D[e].version <= D[d].version}
    IN IF document_key # 0 /\ same # {}
       THEN {[documents |-> D, nextDocId |-> nid, document_id |-> d, version |-> D[d].version] :
                d \in newest}
       ELSE {[documents |-> [d \in DOMAIN D \cup {nid} |->
                                IF d = nid
                                THEN DocumentModel(doc_type,
                                        IF document_key # 0 THEN document_key ELSE now)
                                ELSE D[d]],
              nextDocId |-> nid + 1, document_id |-> nid, version |-> 1]}

add_or_update_title(st, document_id, text) ==
    LET titles == OfType(st.blocks, document_id, "title")
    IN IF titles # {}
       THEN {BlockResult((st.blocks \ {existing}) \cup {[existing EXCEPT !.text = text]},
                         st.nextBlockId, existing.id, TRUE) :
                existing \in FirstByOrder(titles)}
       ELSE \* new block at block_order = 1; the other blocks are not shifted
            {BlockResult(
                st.blocks \cup {DocumentBlockModel(st.nextBlockId, document_id, "title", 1,
                                                   text, 0, "")},
                st.nextBlockId + 1, st.nextBlockId, TRUE)}

\* description upsert that always takes the create branch
Mutant_add_or_update_description(st, document_id, text) ==
    {AppendBlock(st, document_id, "description", text, 0, "")}

add_or_update_description(st, document_id, text) ==
    LET descriptions == OfType(st.blocks, document_id, "description")
    IN IF descriptions # {}
       THEN {BlockResult((st.blocks \ {existing}) \cup {[existing EXCEPT !.text = text]},
                         st.nextBlockId, existing.id, TRUE) :
                existing \in FirstByOrder(descriptions)}
       ELSE {AppendBlock(st, document_id, "description", text, 0, "")}

add_or_update_step(st, document_id, step_number, step_description) ==
    LET steps == OfType(st.blocks, document_id, "step")
        targets == {b \in steps : b.step_number = step_number}
    IN IF targets # {}
       THEN {BlockResult((st.blocks \ {target}) \cup
                            {[target EXCEPT !.text = step_description,
                                            !.step_number = step_number]},
                         st.nextBlockId, target.id, TRUE) :
                target \in targets}
       ELSE {AppendBlock(st, document_id, "step", step_description, step_number, "")}

\* b.content["step_number"] = ... edits the loaded JSON value in place: the column
\* is a plain JSON column, so the edit is not written by the commit, and only a
\* later read in the same session (expire_on_commit=False) sees it.
InPlaceStepNumbers(B, edited) == IF sharedSession THEN edited ELSE B

insert_step_before(st, document_id, before_step, step_description) ==
    LET bumped == {IF b.document_id = document_id /\ b.block_type = "step"
                        /\ b.step_number >= before_step
                   THEN [b EXCEPT !.step_number = @ + 1] ELSE b : b \in st.blocks}
        kept == InPlaceStepNumbers(st.blocks, bumped)
    IN {BlockResult(
            kept \cup {DocumentBlockModel(st.nextBlockId, document_id, "step",
                                          NextOrder(st.blocks, document_id),
                                          step_description, before_step, "")},
            st.nextBlockId + 1, st.nextBlockId, TRUE)}

delete_step(st, document_id, step_number) ==
    LET steps == OfType(st.blocks, document_id, "step")
        targets == {b \in steps : b.step_number = step_number}
    IN IF targets = {}
       THEN {BlockResult(st.blocks, st.nextBlockId, 0, FALSE)}
       ELSE UNION {
              {LET rest == st.blocks \ {target}
                   renumbered ==
                       {IF \E idx \in DOMAIN remaining : remaining[idx].id = b.id
                        THEN [b EXCEPT !.step_number =
                                  CHOOSE idx \in DOMAIN remaining : remaining[idx].id = b.id]
                        ELSE b : b \in rest}
               IN BlockResult(InPlaceStepNumbers(rest, renumbered),
                              st.nextBlockId, target.id, TRUE) :
                 remaining \in OrderedByStepNumber(steps \ {target})} :
              target \in targets}

add_question(st, document_id, question) ==
    {AppendBlock(st, document_id, "question", question, 0, "open")}

\* i.safety_type.lower(), for the subtype spellings the model draws
LowerSafety(safety_type) ==
    CASE safety_type = "WARNING" -> "warning"
      [] safety_type = "Caution" -> "caution"
      [] OTHER -> safety_type

Mutant_add_safety_block(st, document_id, safety_type, text) ==
    IF safety_type \notin {"ppe_required", "warning", "caution"}
    THEN {BlockResult(st.blocks, st.nextBlockId, 0, FALSE)}
    ELSE {AppendBlock(st, document_id, safety_type, text, 0, "")}

add_safety_block(st, document_id, safety_type, text) ==
    LET bt == LowerSafety(safety_type)
    IN IF bt \notin {"ppe_required", "warning", "caution"}
       THEN {BlockResult(st.blocks, st.nextBlockId, 0, FALSE)}    \* raise ValueError
       ELSE {AppendBlock(st, document_id, bt, text, 0, "")}

(***************************************************************************)
(* Document Assembler: structural validation                               *)
(***************************************************************************)
\* _load_templates: required_blocks per document type, in template order
RequiredBlocks(document_type) ==
    CASE document_type = "sop" -> <<"title", "description">>
      [] document_type = "procedure" -> <<"title", "description", "step">>
      [] document_type = "checklist" -> <<"title", "checklist">>
      [] OTHER -> <<>>

Mutant_validate_document_structure(document_type, doc_blocks) ==
    LET block_types == {b.block_type : b \in doc_blocks}
        missing_required == SelectSeq(RequiredBlocks(document_type),
                                      LAMBDA bt : bt \notin block_types)
    IN [is_valid |-> Len(missing_required) < Len(RequiredBlocks(document_type))
                        \/ RequiredBlocks(document_type) = <<>>,
        missing_required |-> missing_required,
        block_count |-> Cardinality(doc_blocks)]

validate_document_structure(document_type, doc_blocks) ==
    LET block_types == {b.block_type : b \in doc_blocks}
        missing_required == SelectSeq(RequiredBlocks(document_type),
                                      LAMBDA bt : bt \notin block_types)
    IN [is_valid |-> Len(missing_required) = 0,
        missing_required |-> missing_required,
        block_count |-> Cardinality(doc_blocks)]

(***************************************************************************)
(* Document Assembler: rendering.  A rendered document is the sequence of  *)
(* its parts: the format's header, then one part per block in block order. *)
(***************************************************************************)
AssemblyFormat == {"html", "markdown", "pdf", "plain_text", "json"}

\* _render_block_<format>(block): the block's type and text in the format's markup
RenderBlock(markup, block) == <<markup, block.block_type, block.text>>

RenderBlocks(markup, sorted_blocks) ==
    [i \in DOMAIN sorted_blocks |-> RenderBlock(markup, sorted_blocks[i])]

_assemble_html(sorted_blocks) ==
    <<"<!DOCTYPE html>">> \o RenderBlocks("html", sorted_blocks) \o <<"</body></html>">>

_assemble_markdown(sorted_blocks) ==
    <<"# document_name", "## Table of Contents">> \o RenderBlocks("markdown", sorted_blocks)

_assemble_plain_text(sorted_blocks) ==
    <<"document_name", "====">> \o RenderBlocks("plain_text", sorted_blocks)

_assemble_json(sorted_blocks) ==
    <<"{\"document\":", "\"blocks\":">> \o RenderBlocks("json", sorted_blocks)

\* the rows in any order at all
Mutant_LoadBlocks(rows) ==
    {s \in [1..Cardinality(rows) -> rows] : \A i, j \in DOMAIN s : i # j => s[i] # s[j]}

\* load_pydantic_document: the document's rows, order_by(block_order.asc());
\* rows of equal order come in any order
RECURSIVE LoadBlocks(_)
LoadBlocks(rows) ==
    IF rows = {} THEN {<<>>}
    ELSE UNION {{<<b>> \o rest : rest \in LoadBlocks(rows \ {b})} : b \in FirstByOrder(rows)}

AssembledDocument(ok, content, format_type, block_count) ==
    [ok |-> ok, content |-> content, format_type |-> format_type,
     block_count |-> block_count]

\* the list as it was given
Mutant_sorted_blocks(document_blocks) == document_blocks

\* sorted(document.blocks, key=lambda b: b.block_order): ascending block_order,
\* blocks of equal order in the order the list had them
RECURSIVE sorted_blocks(_)
sorted_blocks(document_blocks) ==
    IF document_blocks = <<>> THEN <<>>
    ELSE LET n == Len(document_blocks)
             b == document_blocks[n]
             front == sorted_blocks(SubSeq(document_blocks, 1, n - 1))
             k == Cardinality({i \in DOMAIN front : front[i].block_order <= b.block_order})
         IN SubSeq(front, 1, k) \o <<b>> \o SubSeq(front, k + 1, n - 1)

\* DocumentAssembler.assemble_document(document, config) on document.blocks,
\* config.format_type = format_type
assemble_document_list(document_blocks, format_type) ==
    LET sorted == sorted_blocks(document_blocks)
    IN CASE format_type = "html" ->
              AssembledDocument(TRUE, _assemble_html(sorted), format_type, Len(sorted))
         [] format_type = "markdown" ->
              AssembledDocument(TRUE, _assemble_markdown(sorted), format_type, Len(sorted))
         [] format_type = "plain_text" ->
              AssembledDocument(TRUE, _assemble_plain_text(sorted), format_type, Len(sorted))
         [] format_type = "json" ->
              AssembledDocument(TRUE, _assemble_json(sorted), format_type, Len(sorted))
         [] OTHER -> AssembledDocument(FALSE, <<>>, format_type, 0)   \* raise ValueError

\* the rows rendered in any order at all, unsorted
Mutant_assemble_document(doc_blocks, format_type) ==
    {AssembledDocument(TRUE, _assemble_json(loaded), format_type, Len(loaded)) :
        loaded \in Mutant_LoadBlocks(doc_blocks)}

\* assemble_document on the document as load_pydantic_document loads it
assemble_document(doc_blocks, format_type) ==
    {assemble_document_list(loaded, format_type) : loaded \in LoadBlocks(doc_blocks)}

\* sop_tools.assemble_document: a format_type that is no AssemblyFormat value
\* becomes AssemblyFormat.HTML
tools_assemble_document(db, document_id, format_type) ==
    IF document_id \notin DOMAIN db.documents
    THEN {AssembledDocument(FALSE, <<>>, format_type, 0)}  \* load_pydantic_document raises
    ELSE LET fmt == IF format_type \in AssemblyFormat THEN format_type ELSE "html"
         IN assemble_document(DocBlocks(db.blocks, document_id), fmt)

\* io_tools.write_mermaid_trace: the file <thread_id>_trace.mmd, "graph TD" and
\* one line "a --> b" for each pair of consecutive entries of visited_nodes
write_mermaid_trace(thread_id, visited_nodes) ==
    [path |-> thread_id,
     lines |-> <<"graph TD">> \o [i \in 1..(Len(visited_nodes) - 1) |->
                                    <<visited_nodes[i], "-->", visited_nodes[i + 1]>>]]

\* the list ConversationGraph.assemble hands to write_mermaid_trace
AssembleTrace == <<"start", "supervisor", "interviewer", "writer", "qc">>

\* ConversationGraph.assemble: renders HTML and Markdown, whatever req.format is,
\* returns the HTML content as the preview and writes the thread's trace diagram
assemble(db, thread_id, document_id, format) ==
    IF document_id \notin DOMAIN db.documents
    THEN {[ok |-> FALSE, preview |-> <<>>, html |-> <<>>, markdown |-> <<>>,
           trace |-> write_mermaid_trace(thread_id, <<>>)]}   \* raises before the trace
    ELSE LET doc_blocks == DocBlocks(db.blocks, document_id)
         IN {[ok |-> TRUE, preview |-> html_doc.content,
              html |-> html_doc.content, markdown |-> md_doc.content,
              trace |-> write_mermaid_trace(thread_id, AssembleTrace)] :
                html_doc \in assemble_document(doc_blocks, "html"),
                md_doc \in assemble_document(doc_blocks, "markdown")}

(***************************************************************************)
(* Texts.  A text is the sequence of its tokens: words, " ", "." and ";".  *)
(***************************************************************************)
\* str.lower(), for the capitalised words the model draws
Lower(tok) ==
    CASE tok = "Call" -> "call"
      [] tok = "First" -> "first"
      [] tok = "Then" -> "then"
      [] tok = "About" -> "about"
      [] OTHER -> tok

TitleKeywords == {"call", "name", "title"}
DescriptionKeywords == {"describe", "description", "about"}
StepsKeywords == {"first", "then", "finally", "step"}

\* the keywords that occur in a (lower-cased) token as substrings
KeywordsIn(tok) ==
    CASE tok \in (TitleKeywords \cup DescriptionKeywords \cup StepsKeywords) -> {tok}
      [] tok = "steps" -> {"step"}
      [] tok = "named" -> {"name"}
      [] OTHER -> {}

ContainsAny(text, keywords) ==
    \E i \in DOMAIN text : KeywordsIn(Lower(text[i])) \cap keywords # {}

Mutant_classify_intent(text) ==
    IF ContainsAny(text, DescriptionKeywords) THEN "description"
    ELSE IF ContainsAny(text, TitleKeywords) THEN "title"
    ELSE IF ContainsAny(text, StepsKeywords) THEN "steps"
    ELSE "ambiguous"

_classify_intent(text) ==
    IF ContainsAny(text, TitleKeywords) THEN "title"
    ELSE IF ContainsAny(text, DescriptionKeywords) THEN "description"
    ELSE IF ContainsAny(text, StepsKeywords) THEN "steps"
    ELSE "ambiguous"

RECURSIVE LStrip(_)
LStrip(text) ==
    IF text # <<>> /\ Head(text) = " " THEN LStrip(Tail(text)) ELSE text

RECURSIVE RStripTok(_, _)
RStripTok(text, tok) ==
    IF text # <<>> /\ text[Len(text)] = tok
    THEN RStripTok(SubSeq(text, 1, Len(text) - 1), tok) ELSE text

Strip(text) == RStripTok(LStrip(text), " ")

\* len(t.split()): the number of maximal runs of non-space tokens
WordCount(text) ==
    Cardinality({i \in DOMAIN text : text[i] # " " /\ (i = 1 \/ text[i - 1] = " ")})

Mutant_extract_title(text) ==
    LET t == Strip(text)
    IN IF WordCount(t) >= 2 THEN t ELSE <<>>

\* None is the empty text
_extract_title(text) ==
    LET t == RStripTok(Strip(text), ".")
    IN IF WordCount(t) >= 2 THEN t ELSE <<>>

\* text.replace(";", ".").split("."): the segments between terminators
RECURSIVE SplitOnTerminators(_, _)
SplitOnTerminators(text, current) ==
    IF text = <<>> THEN <<current>>
    ELSE IF Head(text) \in {".", ";"}
         THEN <<current>> \o SplitOnTerminators(Tail(text), <<>>)
         ELSE SplitOnTerminators(Tail(text), Append(current, Head(text)))

Mutant_parse_steps(text) ==
    LET parts == SplitOnTerminators(text, <<>>)
    IN SelectSeq(parts, LAMBDA part : part # <<>>)

_parse_steps(text) ==
    LET parts == SplitOnTerminators(text, <<>>)
        stripped == [i \in DOMAIN parts |-> Strip(parts[i])]
    IN SelectSeq(stripped, LAMBDA part : part # <<>>)

(***************************************************************************)
(* Orchestration graph.  A node maps the GraphState and the database it is *)
(* run on to the commands it may return: goto, the updated state, and the  *)
(* database its tool calls leave.                                          *)
(***************************************************************************)
HumanMessage(content) == [role |-> "human", content |-> content]
AIMessage(content) == [role |-> "ai", content |-> content]

Greeting == <<"Hi! Let's draft a new SOP. What is this process called?">>
FollowUp == <<"Could you provide a short description or the next steps?">>
AckTitle == <<"Title captured. Please share a one-sentence description.">>
AckDescription == <<"Description saved. List the steps briefly.">>
AckSteps == <<"Steps added. Any PPE or safety warnings to include?">>
AckClarify == <<"Got it. Could you clarify the process name or provide a description?">>
Completion == <<"Structure looks complete. Say 'assemble' to generate a preview.">>
PleaseProvide(bt) == <<"Please provide", bt>>
StillNeed(missing) == <<"We still need:">> \o missing

EmptyState == [document_id |-> 0, messages |-> <<>>, visited_nodes |-> <<>>, open_questions |-> <<>>]

Database == [documents |-> documents, nextDocId |-> nextDocId,
             blocks |-> blocks, nextBlockId |-> nextBlockId]

WithStore(db, r) == [db EXCEPT !.blocks = r.blocks, !.nextBlockId = r.nextBlockId]

Command(goto, state, db) == [goto |-> goto, state |-> state, db |-> db]

Mutant_supervisor(state, db) ==
    LET last_message == IF state.messages # <<>> THEN state.messages[Len(state.messages)]
                        ELSE [role |-> "none", content |-> <<>>]
        goto == IF state.document_id = 0 THEN "interviewer"
                ELSE IF last_message.role = "human"
                     THEN "writer"
                     ELSE "qc"
    IN {Command(goto, [state EXCEPT !.visited_nodes = Append(@, "supervisor")], db)}

Mutant_supervisor_trace(state, db) ==
    LET last_message == IF state.messages # <<>> THEN state.messages[Len(state.messages)]
                        ELSE [role |-> "none", content |-> <<>>]
        goto == IF Len(state.visited_nodes) >= 2 THEN "__end__"
                ELSE IF state.document_id = 0 THEN "interviewer"
                ELSE IF last_message.role = "human"
                     THEN IF _classify_intent(last_message.content)
                                \in {"title", "description", "steps"}
                          THEN "writer"
                          ELSE "interviewer"
                     ELSE "qc"
    IN {Command(goto, [state EXCEPT !.visited_nodes = Append(@, "supervisor")], db)}

\* supervisor that sends a thread with no document and no human message to qc
Mutant_supervisor_unbound(state, db) ==
    LET last_message == IF state.messages # <<>> THEN state.messages[Len(state.messages)]
                        ELSE [role |-> "none", content |-> <<>>]
        goto == IF state.document_id = 0
                THEN IF last_message.role = "human" THEN "interviewer" ELSE "qc"
                ELSE IF last_message.role = "human"
                     THEN IF _classify_intent(last_message.content)
                                \in {"title", "description", "steps"}
                          THEN "writer"
                          ELSE "interviewer"
                     ELSE "qc"
    IN {Command(goto, [state EXCEPT !.visited_nodes = Append(@, "supervisor")], db)}

\* supervisor that sends an unclassified message of a bound thread to researcher
Mutant_supervisor_researcher(state, db) ==
    LET last_message == IF state.messages # <<>> THEN state.messages[Len(state.messages)]
                        ELSE [role |-> "none", content |-> <<>>]
        goto == IF state.document_id = 0 THEN "interviewer"
                ELSE IF last_message.role = "human"
                     THEN IF _classify_intent(last_message.content)
                                \in {"title", "description", "steps"}
                          THEN "writer"
                          ELSE "researcher"
                     ELSE "qc"
    IN {Command(goto, [state EXCEPT !.visited_nodes = Append(@, "supervisor")], db)}

supervisor(state, db) ==
    LET last_message == IF state.messages # <<>> THEN state.messages[Len(state.messages)]
                        ELSE [role |-> "none", content |-> <<>>]
        goto == IF state.document_id = 0 THEN "interviewer"
                ELSE IF last_message.role = "human"
                     THEN IF _classify_intent(last_message.content)
                                \in {"title", "description", "steps"}
                          THEN "writer"
                          ELSE "interviewer"
                     ELSE "qc"
    IN {Command(goto, [state EXCEPT !.visited_nodes = Append(@, "supervisor")], db)}

\* interviewer that asks the follow-up question whether or not a document was bound
Mutant_interviewer_node(state, db) ==
    LET made == IF state.document_id = 0
                THEN create_or_get_document(db.documents, db.nextDocId, 0, "sop")
                ELSE {[documents |-> db.documents, nextDocId |-> db.nextDocId,
                       document_id |-> state.document_id, version |-> 0]}
    IN UNION {
         {Command("supervisor",
                  [state EXCEPT !.document_id = out.document_id,
                                !.open_questions = Append(@, res.block_id),
                                !.messages = Append(@, AIMessage(FollowUp)),
                                !.visited_nodes = Append(@, "interviewer")],
                  [documents |-> out.documents, nextDocId |-> out.nextDocId,
                   blocks |-> res.blocks, nextBlockId |-> res.nextBlockId]) :
            res \in add_question([blocks |-> db.blocks, nextBlockId |-> db.nextBlockId],
                                 out.document_id, FollowUp)} :
         out \in made}

interviewer_node(state, db) ==
    LET made == IF state.document_id = 0
                THEN create_or_get_document(db.documents, db.nextDocId, 0, "sop")
                ELSE {[documents |-> db.documents, nextDocId |-> db.nextDocId,
                       document_id |-> state.document_id, version |-> 0]}
        question == IF state.document_id = 0 THEN Greeting ELSE FollowUp
    IN UNION {
         {Command("supervisor",
                  [state EXCEPT !.document_id = out.document_id,
                                !.open_questions = Append(@, res.block_id),
                                !.messages = Append(@, AIMessage(question)),
                                !.visited_nodes = Append(@, "interviewer")],
                  [documents |-> out.documents, nextDocId |-> out.nextDocId,
                   blocks |-> res.blocks, nextBlockId |-> res.nextBlockId]) :
            res \in add_question([blocks |-> db.blocks, nextBlockId |-> db.nextBlockId],
                                 out.document_id, question)} :
         out \in made}

\* for idx, s in enumerate(steps, 1): add_or_update_step(step_number = idx, ...)
RECURSIVE WriteSteps(_, _, _, _)
WriteSteps(stores, document_id, steps, idx) ==
    IF idx > Len(steps) THEN stores
    ELSE WriteSteps(
            UNION {{[blocks |-> r.blocks, nextBlockId |-> r.nextBlockId] :
                        r \in add_or_update_step(st, document_id, idx, steps[idx])} :
                   st \in stores},
            document_id, steps, idx + 1)

writer_node(state, db) ==
    LET humans == {i \in DOMAIN state.messages : state.messages[i].role = "human"}
        st == [blocks |-> db.blocks, nextBlockId |-> db.nextBlockId]
        done(ack, stores) ==
            {Command("supervisor",
                     [state EXCEPT !.messages = Append(@, AIMessage(ack)),
                                   !.visited_nodes = Append(@, "writer")],
                     WithStore(db, r)) : r \in stores}
    IN IF humans = {} THEN done(<<>>, {st})
       ELSE LET content == state.messages[SetMax(humans)].content
                intent == _classify_intent(content)
            IN CASE intent = "title" ->
                      done(AckTitle,
                           add_or_update_title(st, state.document_id,
                               IF _extract_title(content) # <<>> THEN _extract_title(content)
                               ELSE content))
                 [] intent = "description" ->
                      done(AckDescription,
                           add_or_update_description(st, state.document_id, content))
                 [] intent = "steps" ->
                      done(AckSteps,
                           WriteSteps({st}, state.document_id, _parse_steps(content), 1))
                 [] OTHER -> done(AckClarify, {st})

\* get_all_sop_titles(...).titles[:5]: the names of the stored documents
TopTitles(D) ==
    [i \in 1..(IF Cardinality(DOMAIN D) < 5 THEN Cardinality(DOMAIN D) ELSE 5) |-> "Untitled SOP"]

\* no supervisor route leads to researcher; the node is run on given states only
researcher_node(state, db) ==
    LET top_titles == IF DOMAIN db.documents # {} THEN TopTitles(db.documents)
                      ELSE <<"no prior SOPs">>
        suggestion == <<"Related SOPs in org:">> \o top_titles
    IN {Command("supervisor",
                [state EXCEPT !.messages = Append(@, AIMessage(suggestion)),
                              !.visited_nodes = Append(@, "researcher")],
                db)}

\* for bt in missing_block_types: add_question("Please provide {bt.value}.")
RECURSIVE AskMissing(_, _, _, _)
AskMissing(stores, document_id, missing, idx) ==
    IF idx > Len(missing) THEN stores
    ELSE AskMissing(
            UNION {{[blocks |-> r.blocks, nextBlockId |-> r.nextBlockId] :
                        r \in add_question(st, document_id, PleaseProvide(missing[idx]))} :
                   st \in stores},
            document_id, missing, idx + 1)

Mutant_qc_incomplete(state, db, missing) ==
    {Command("supervisor",
             [state EXCEPT !.messages = Append(@, AIMessage(StillNeed(missing))),
                           !.visited_nodes = <<"qc">>],
             WithStore(db, r)) :
        r \in AskMissing({[blocks |-> db.blocks, nextBlockId |-> db.nextBlockId]},
                         state.document_id, missing, 1)}

qc_incomplete(state, db, missing) ==
    {Command("supervisor",
             [state EXCEPT !.messages = Append(@, AIMessage(StillNeed(missing))),
                           !.visited_nodes = Append(@, "qc")],
             WithStore(db, r)) :
        r \in AskMissing({[blocks |-> db.blocks, nextBlockId |-> db.nextBlockId]},
                         state.document_id, missing, 1)}

Mutant_qc_complete(state, db) ==
    {Command("supervisor",
             [state EXCEPT !.messages = Append(@, AIMessage(Completion)),
                           !.visited_nodes = Append(@, "qc")],
             db)}

qc_complete(state, db) ==
    {Command("__end__",
             [state EXCEPT !.messages = Append(@, AIMessage(Completion)),
                           !.visited_nodes = Append(@, "qc")],
             db)}

qc_node(state, db) ==
    IF state.document_id = 0 THEN {Command("supervisor", state, db)}
    ELSE IF state.document_id \notin DOMAIN db.documents
    THEN {Command("raise", state, db)}       \* load_pydantic_document: ValueError
    ELSE LET validation ==
                validate_document_structure(
                    db.documents[state.document_id].document_type,
                    DocBlocks(db.blocks, state.document_id))
         IN IF ~validation.is_valid
            THEN qc_incomplete(state, db, validation.missing_required)
            ELSE qc_complete(state, db)

(***************************************************************************)
(* Spec: the Block Service called on the documents of the integration test *)
(***************************************************************************)
ServiceBlockTypes == {"step"}
ServiceDocIds == {1, 2, 3}           \* 3 names no document
Positions == 0..(MaxCreated + 1)
NoOp == [op |-> "", doc |-> 0, arg |-> 0, ok |-> TRUE, id |-> 0, pre |-> {}, msgs |-> <<>>, goto |-> "", trace |-> <<>>, out |-> <<>>, docs |-> {}, questions |-> <<>>]
NoTurn == [kind |-> "", thread |-> "", n |-> 0, steps |-> 0, nodes |-> <<>>, outcome |-> "", pre |-> {}, docs |-> {}, fresh |-> FALSE, bound |-> 0, trace |-> <<>>]

Threads == {"t1"}

Callers == {"c1", "c2"}
NoCall == [pc |-> "ready", op |-> "", doc |-> 0, order |-> 0, id |-> 0, overlapped |-> FALSE]

InitIdle ==
    /\ callers = [c \in Callers |-> NoCall]
    /\ threads = [t \in Threads |-> EmptyState]
    /\ pc = "idle"
    /\ turn = NoTurn
    /\ last = NoOp
    /\ now = 1

Init ==
    /\ documents = [d \in {1, 2} |-> DocumentModel("sop", 1000 + d)]
    /\ blocks = {}
    /\ nextBlockId = 1
    /\ nextDocId = 3
    /\ autoflush \in BOOLEAN
    /\ sharedSession = TRUE
    /\ InitIdle

AddBlock ==
    \E d \in ServiceDocIds, bt \in ServiceBlockTypes, p \in Positions, hp \in BOOLEAN :
        /\ nextBlockId <= MaxCreated
        /\ hp \/ p = 0
        /\ add_block(d, bt, <<"x">>, hp, p)
        /\ UNCHANGED <<documents, nextDocId, now, autoflush, sharedSession, callers, graphVars>>

DeleteBlock ==
    \E id \in 1..MaxCreated :
        /\ delete_block(id)
        /\ UNCHANGED <<documents, nextDocId, now, autoflush, sharedSession, callers, graphVars>>

UpdateBlock ==
    \E id \in 1..2 :
        /\ update_block(id, <<"y">>)
        /\ UNCHANGED <<documents, nextDocId, now, autoflush, sharedSession, callers, graphVars>>

\* block_orders: one entry, a swap of two blocks, an entry with a falsy order
BlockOrders ==
    {<<[block_id |-> 1, order |-> 2]>>,
     <<[block_id |-> 1, order |-> 2], [block_id |-> 2, order |-> 1]>>,
     <<[block_id |-> 2, order |-> 0]>>}

ReorderBlocks ==
    \E d \in ServiceDocIds, block_orders \in BlockOrders :
        /\ reorder_blocks(d, block_orders)
        /\ UNCHANGED <<documents, nextDocId, now, autoflush, sharedSession, callers, graphVars>>

DuplicateBlock ==
    \E id \in 1..MaxCreated :
        /\ nextBlockId <= MaxCreated
        /\ duplicate_block(id)
        /\ UNCHANGED <<documents, nextDocId, now, autoflush, sharedSession, callers, graphVars>>

Next ==
    \/ AddBlock
    \/ DeleteBlock

Spec == Init /\ [][Next]_vars

(***************************************************************************)
(* SpecService: every mutating operation of the Block Service, called on   *)
(* one document and on ids that name none                                  *)
(***************************************************************************)
InitService ==
    /\ documents = [d \in {1} |-> DocumentModel("sop", 1001)]
    /\ blocks = {}
    /\ nextBlockId = 1
    /\ nextDocId = 2
    /\ autoflush = TRUE
    /\ sharedSession = TRUE
    /\ InitIdle

NextService ==
    \/ AddBlock
    \/ DeleteBlock
    \/ UpdateBlock
    \/ ReorderBlocks
    \/ DuplicateBlock

SpecService == InitService /\ [][NextService]_vars

\* SpecDocuments: the same operations called on the two documents of Init
InitDocuments ==
    /\ documents = [d \in {1, 2} |-> DocumentModel("sop", 1000 + d)]
    /\ blocks = {}
    /\ nextBlockId = 1
    /\ nextDocId = 3
    /\ autoflush = TRUE
    /\ sharedSession = TRUE
    /\ InitIdle

SpecDocuments == InitDocuments /\ [][NextService]_vars

(***************************************************************************)
(* SpecRace: two requests, each with its own session, each appending one   *)
(* block; the read of the highest order and the insert are separate steps  *)
(***************************************************************************)
AppendOps == {"add_block", "add_question", "add_safety_block", "add_or_update_description"}

\* the row an append-at-end insertion builds, given the order it computed
AppendedRow(op, id, document_id, block_order) ==
    CASE op = "add_block" ->
            DocumentBlockModel(id, document_id, "step", block_order, <<"x">>, 0, "")
      [] op = "add_question" ->
            DocumentBlockModel(id, document_id, "question", block_order, <<"q">>, 0, "open")
      [] op = "add_safety_block" ->
            DocumentBlockModel(id, document_id, "warning", block_order, <<"a">>, 0, "")
      [] OTHER ->
            DocumentBlockModel(id, document_id, "description", block_order, <<"a">>, 0, "")

\* the order computed at insert time, as if read and insert were one step
Mutant_InsertedOrder(c) == NextOrder(blocks, callers[c].doc)

\* block_order = new_order: the value computed from the row the caller read
InsertedOrder(c) == callers[c].order

InitRace ==
    /\ documents = [d \in {1, 2} |-> DocumentModel("sop", 1000 + d)]
    /\ \E n \in 0..(MaxCreated - 2) :
         /\ blocks = {DocumentBlockModel(i, 1, "step", i, <<"x">>, 0, "") : i \in 1..n}
         /\ nextBlockId = n + 1
    /\ nextDocId = 3
    /\ autoflush = TRUE
    /\ sharedSession = FALSE
    /\ InitIdle

\* the select ... order_by(block_order.desc()).first() of an append, and
\* new_order = (last.block_order + 1) if last else 1
ReadMaxOrder ==
    \E c \in Callers, op \in AppendOps, d \in DOMAIN documents :
        /\ callers[c].pc = "ready"
        /\ op = "add_or_update_description" => OfType(blocks, d, "description") = {}
        /\ callers' = [x \in Callers |->
                          IF x = c
                          THEN [pc |-> "read", op |-> op, doc |-> d,
                                order |-> NextOrder(blocks, d), id |-> 0,
                                overlapped |-> \E o \in Callers \ {c} : callers[o].pc = "read"]
                          ELSE IF callers[x].pc = "read"
                               THEN [callers[x] EXCEPT !.overlapped = TRUE]
                               ELSE callers[x]]
        /\ UNCHANGED <<dbVars, now, autoflush, sharedSession, graphVars, last>>

\* db.add(block); commit
InsertBlock ==
    \E c \in Callers :
        /\ callers[c].pc = "read"
        /\ blocks' = blocks \cup {AppendedRow(callers[c].op, nextBlockId, callers[c].doc,
                                               InsertedOrder(c))}
        /\ nextBlockId' = nextBlockId + 1
        /\ callers' = [callers EXCEPT ![c].pc = "done", ![c].id = nextBlockId]
        /\ last' = Op(callers[c].op, callers[c].doc, 0, TRUE, nextBlockId)
        /\ UNCHANGED <<documents, nextDocId, now, autoflush, sharedSession, graphVars>>

NextRace ==
    \/ ReadMaxOrder
    \/ InsertBlock

SpecRace == InitRace /\ [][NextRace]_vars

(***************************************************************************)
(* SpecTools: the Tool Layer called on one document                        *)
(***************************************************************************)
ToolTexts == {<<"a">>}
StepNumbers == 1..2
SafetyTypes == {"WARNING", "caution", "danger"}

InitTools ==
    /\ documents = [d \in {1} |-> DocumentModel("sop", 1001)]
    /\ blocks = {}
    /\ nextBlockId = 1
    /\ nextDocId = 2
    /\ autoflush = TRUE
    /\ sharedSession \in BOOLEAN
    /\ InitIdle

ToolCall(results, op, document_id, arg) ==
    \E r \in results :
        /\ r.nextBlockId <= MaxCreated + 1
        /\ blocks' = r.blocks
        /\ nextBlockId' = r.nextBlockId
        /\ last' = Op(op, document_id, arg, r.ok, r.block_id)
        /\ UNCHANGED <<documents, nextDocId, now, autoflush, sharedSession, callers, graphVars>>

AddOrUpdateTitle ==
    \E d \in DOMAIN documents, t \in ToolTexts :
        ToolCall(add_or_update_title(Store, d, t), "add_or_update_title", d, 0)

AddOrUpdateDescription ==
    \E d \in DOMAIN documents, t \in ToolTexts :
        ToolCall(add_or_update_description(Store, d, t), "add_or_update_description", d, 0)

AddOrUpdateStep ==
    \E d \in DOMAIN documents, n \in StepNumbers, t \in ToolTexts :
        ToolCall(add_or_update_step(Store, d, n, t), "add_or_update_step", d, n)

InsertStepBefore ==
    \E d \in DOMAIN documents, n \in StepNumbers, t \in ToolTexts :
        ToolCall(insert_step_before(Store, d, n, t), "insert_step_before", d, n)

DeleteStep ==
    \E d \in DOMAIN documents, n \in StepNumbers :
        ToolCall(delete_step(Store, d, n), "delete_step", d, n)

AddQuestion ==
    \E d \in DOMAIN documents :
        ToolCall(add_question(Store, d, <<"q">>), "add_question", d, 0)

AddSafetyBlock ==
    \E d \in DOMAIN documents, st \in SafetyTypes, t \in ToolTexts :
        ToolCall(add_safety_block(Store, d, st, t), "add_safety_block", d, st)

NextTools ==
    \/ AddOrUpdateTitle
    \/ AddOrUpdateDescription
    \/ AddOrUpdateStep
    \/ InsertStepBefore
    \/ DeleteStep
    \/ AddQuestion
    \/ AddSafetyBlock

SpecTools == InitTools /\ [][NextTools]_vars

\* SpecDocumentKeys: create_or_get_document calls, with and without a key, as
\* the clock advances
DocumentKeys == {0, 1001, 1002}      \* 0: no document_key given
GivenTypes == {"sop", "checklist", "memo"}

InitDocumentKeys ==
    /\ documents = <<>>
    /\ blocks = {}
    /\ nextBlockId = 1
    /\ nextDocId = 1
    /\ autoflush = TRUE
    /\ sharedSession = FALSE
    /\ InitIdle

CreateOrGetDocument ==
    \E document_key \in DocumentKeys, document_type \in GivenTypes :
        \E out \in create_or_get_document(documents, nextDocId, document_key, document_type) :
            /\ out.nextDocId <= MaxCreated + 1
            /\ documents' = out.documents
            /\ nextDocId' = out.nextDocId
            /\ last' = Op("create_or_get_document", out.document_id, document_key, TRUE,
                          out.document_id)
            /\ UNCHANGED <<blocks, nextBlockId, now, autoflush, sharedSession, callers, graphVars>>

\* a second passes
Tick ==
    /\ now < MaxCreated
    /\ now' = now + 1
    /\ UNCHANGED <<dbVars, autoflush, sharedSession, callers, graphVars, last>>

NextDocumentKeys ==
    \/ CreateOrGetDocument
    \/ Tick

SpecDocumentKeys == InitDocumentKeys /\ [][NextDocumentKeys]_vars

\* SpecUpsert: title and description upserts with two texts, among questions
UpsertTexts == {<<"a">>, <<"b">>}

UpsertTitle ==
    \E d \in DOMAIN documents, t \in UpsertTexts :
        ToolCall(add_or_update_title(Store, d, t), "add_or_update_title", d, t)

UpsertDescription ==
    \E d \in DOMAIN documents, t \in UpsertTexts :
        ToolCall(add_or_update_description(Store, d, t), "add_or_update_description", d, t)

NextUpsert ==
    \/ UpsertTitle
    \/ UpsertDescription
    \/ AddQuestion

SpecUpsert == InitTools /\ [][NextUpsert]_vars

\* SpecIntegrity: insertions of the Block Service and the Tool Layer, given the
\* id of the stored document or an id that names no document
ToolDocIds == DOMAIN documents \cup {nextDocId}

AddBlockById ==
    \E d \in ToolDocIds :
        /\ nextBlockId <= MaxCreated
        /\ add_block(d, "step", <<"x">>, FALSE, 0)
        /\ UNCHANGED <<documents, nextDocId, now, autoflush, sharedSession, callers, graphVars>>

AddOrUpdateTitleById ==
    \E d \in ToolDocIds, t \in ToolTexts :
        ToolCall(add_or_update_title(Store, d, t), "add_or_update_title", d, 0)

AddOrUpdateDescriptionById ==
    \E d \in ToolDocIds, t \in ToolTexts :
        ToolCall(add_or_update_description(Store, d, t), "add_or_update_description", d, 0)

AddOrUpdateStepById ==
    \E d \in ToolDocIds, n \in StepNumbers, t \in ToolTexts :
        ToolCall(add_or_update_step(Store, d, n, t), "add_or_update_step", d, n)

InsertStepBeforeById ==
    \E d \in ToolDocIds, n \in StepNumbers, t \in ToolTexts :
        ToolCall(insert_step_before(Store, d, n, t), "insert_step_before", d, n)

AddQuestionById ==
    \E d \in ToolDocIds :
        ToolCall(add_question(Store, d, <<"q">>), "add_question", d, 0)

AddSafetyBlockById ==
    \E d \in ToolDocIds, t \in ToolTexts :
        ToolCall(add_safety_block(Store, d, "warning", t), "add_safety_block", d, "warning")

NextIntegrity ==
    \/ AddBlockById
    \/ AddOrUpdateTitleById
    \/ AddOrUpdateDescriptionById
    \/ AddOrUpdateStepById
    \/ InsertStepBeforeById
    \/ AddQuestionById
    \/ AddSafetyBlockById

SpecIntegrity == InitTools /\ [][NextIntegrity]_vars

(***************************************************************************)
(* SpecGraph: start and message calls, one at a time, each a run of the    *)
(* graph from START                                                        *)
(***************************************************************************)
TitleText == <<"Call", " ", "it", " ", "x", ".">>
DescriptionText == <<"About", " ", "x">>
StepsText == <<"First", " ", "a", ".", " ", "Then", " ", "b", ".">>
AmbiguousText == <<"x">>
ShortTitleText == <<" ", "title", ".">>
Texts == {TitleText, ShortTitleText, DescriptionText, StepsText, AmbiguousText}

InitGraph ==
    /\ documents \in {<<>>, [d \in {1} |-> DocumentModel("sop", 1001)]}
    /\ blocks = {}
    /\ nextBlockId = 1
    /\ nextDocId = Cardinality(DOMAIN documents) + 1
    /\ autoflush = TRUE
    /\ sharedSession = FALSE
    /\ InitIdle

BeginTurn(kind, thread_id) ==
    turn' = [kind |-> kind, thread |-> thread_id, n |-> turn.n + 1, steps |-> 0,
             nodes |-> <<>>, outcome |-> "running", pre |-> blocks,
             docs |-> DOMAIN documents,
             fresh |-> threads[thread_id] = EmptyState,
             bound |-> threads[thread_id].document_id,
             trace |-> threads[thread_id].visited_nodes]

\* ConversationGraph.start: graph.invoke(initial_state).  The input overwrites the
\* thread's channels; messages go through the add_messages reducer, which keeps
\* the messages the thread already holds.
start(thread_id) ==
    /\ pc = "idle" /\ turn.n < MaxTurns
    /\ threads' = [threads EXCEPT ![thread_id] =
                      [document_id |-> 0, messages |-> @.messages \o <<>>,
                       visited_nodes |-> <<>>, open_questions |-> <<>>]]
    /\ pc' = "supervisor"
    /\ BeginTurn("start", thread_id)
    /\ UNCHANGED <<dbVars, now, autoflush, sharedSession, callers, last>>

\* ConversationGraph.handle_message: graph.invoke of the request on the thread
handle_message(thread_id, document_id, text) ==
    /\ pc = "idle" /\ turn.n < MaxTurns
    /\ threads' = [threads EXCEPT ![thread_id] =
                      [document_id |-> document_id,
                       messages |-> @.messages \o <<HumanMessage(text)>>,
                       visited_nodes |-> <<>>, open_questions |-> <<>>]]
    /\ pc' = "supervisor"
    /\ BeginTurn("message", thread_id)
    /\ UNCHANGED <<dbVars, now, autoflush, sharedSession, callers, last>>

\* One superstep: the node pc names runs on the thread's state
RunNode(name, commands) ==
    /\ pc = name /\ turn.steps < MaxSupersteps
    /\ \E c \in commands :
        /\ threads' = [threads EXCEPT ![turn.thread] = c.state]
        /\ documents' = c.db.documents
        /\ nextDocId' = c.db.nextDocId
        /\ blocks' = c.db.blocks
        /\ nextBlockId' = c.db.nextBlockId
        /\ pc' = IF c.goto = "raise" THEN "idle" ELSE c.goto
        /\ turn' = [turn EXCEPT !.steps = @ + 1, !.nodes = Append(@, name),
                                !.outcome = IF c.goto = "raise" THEN "error" ELSE @]
        /\ last' = [op |-> name, doc |-> threads[turn.thread].document_id, arg |-> 0,
                    ok |-> c.goto # "raise", id |-> 0, pre |-> blocks,
                    msgs |-> threads[turn.thread].messages, goto |-> c.goto,
                    trace |-> threads[turn.thread].visited_nodes, out |-> <<>>,
                    docs |-> DOMAIN documents,
                    questions |-> threads[turn.thread].open_questions]
    /\ UNCHANGED <<now, autoflush, sharedSession, callers>>

StartCall == \E t \in Threads : start(t)

MessageCall ==
    \E t \in Threads, d \in {0} \cup DOMAIN documents, text \in Texts :
        handle_message(t, d, text)

Supervisor == RunNode("supervisor", supervisor(threads[turn.thread], Database))
Interviewer == RunNode("interviewer", interviewer_node(threads[turn.thread], Database))
Writer == RunNode("writer", writer_node(threads[turn.thread], Database))
Qc == RunNode("qc", qc_node(threads[turn.thread], Database))

\* the run reached END: invoke returns and the caller builds its response
ReturnToCaller ==
    /\ pc = "__end__"
    /\ pc' = "idle"
    /\ turn' = [turn EXCEPT !.outcome = "end"]
    /\ UNCHANGED <<dbVars, now, autoflush, sharedSession, callers, threads, last>>

\* the run has not reached END after the framework's step limit: invoke raises
RecursionLimit ==
    /\ pc \in {"supervisor", "interviewer", "writer", "qc"}
    /\ turn.steps = MaxSupersteps
    /\ pc' = "idle"
    /\ turn' = [turn EXCEPT !.outcome = "recursion_error"]
    /\ UNCHANGED <<dbVars, now, autoflush, sharedSession, callers, threads, last>>

\* an assemble request for the thread, between two turns
AssembleCall ==
    /\ pc = "idle" /\ turn.n > 0
    /\ \E t \in Threads, d \in DOMAIN documents :
         \E r \in assemble(Database, t, d, "html") :
            /\ last' = [Op("assemble", d, t, r.ok, 0) EXCEPT !.out = r]
            /\ UNCHANGED <<dbVars, now, autoflush, sharedSession, callers, graphVars>>

NextGraph ==
    \/ StartCall
    \/ MessageCall
    \/ Supervisor
    \/ Interviewer
    \/ Writer
    \/ Qc
    \/ ReturnToCaller
    \/ RecursionLimit

SpecGraph == InitGraph /\ [][NextGraph]_vars

\* SpecTrace: the calls of SpecGraph and assemble requests between them
NextTrace ==
    \/ StartCall
    \/ MessageCall
    \/ Supervisor
    \/ Interviewer
    \/ Writer
    \/ Qc
    \/ ReturnToCaller
    \/ RecursionLimit
    \/ AssembleCall

SpecTrace == InitGraph /\ [][NextTrace]_vars

(***************************************************************************)
(* SpecAssemble: validation and assembly of one stored document            *)
(***************************************************************************)
AssemblyBlockTypes == {"title", "description", "step", "checklist"}
Formats == AssemblyFormat \cup {"docx", "HTML"}

StoredTypes == UNION {[1..n -> AssemblyBlockTypes] : n \in 0..MaxCreated}

\* the rows of document 1 holding blocks of these types, in this order
StoredBlocks(types) ==
    {DocumentBlockModel(i, 1, types[i], i, <<"a">>, IF types[i] = "step" THEN i ELSE 0, "") :
        i \in DOMAIN types}

InitAssemble ==
    /\ documents \in {[d \in {1} |-> DocumentModel(dt, 1001)] : dt \in DocumentTypes}
    /\ blocks \in {StoredBlocks(types) : types \in StoredTypes}
    /\ nextBlockId = Cardinality(blocks) + 1
    /\ nextDocId = 2
    /\ autoflush = TRUE
    /\ sharedSession = FALSE
    /\ InitIdle

Answer(op, document_id, arg, ok, out) ==
    /\ last' = [Op(op, document_id, arg, ok, 0) EXCEPT !.out = out]
    /\ UNCHANGED <<dbVars, now, autoflush, sharedSession, callers, graphVars>>

ValidateDocumentStructure ==
    \E d \in DOMAIN documents :
        LET validation == validate_document_structure(documents[d].document_type,
                                                      DocBlocks(blocks, d))
        IN Answer("validate_document_structure", d, 0, validation.is_valid, validation)

AssembleDocument ==
    \E d \in DOMAIN documents, f \in Formats :
        \E r \in assemble_document(DocBlocks(blocks, d), f) :
            Answer("assemble_document", d, f, r.ok, r)

ToolsAssembleDocument ==
    \E d \in DOMAIN documents \cup {nextDocId}, f \in Formats :
        \E r \in tools_assemble_document(Database, d, f) :
            Answer("tools_assemble_document", d, f, r.ok, r)

Assemble ==
    \E t \in Threads, d \in DOMAIN documents \cup {nextDocId}, f \in Formats :
        \E r \in assemble(Database, t, d, f) :
            Answer("assemble", d, f, r.ok, r)

NextAssemble ==
    \/ ValidateDocumentStructure
    \/ AssembleDocument
    \/ ToolsAssembleDocument
    \/ Assemble

SpecAssemble == InitAssemble /\ [][NextAssemble]_vars

\* SpecAssembleList: assemble_document on a Document whose block list the caller
\* built, in any list order and with orders that may repeat
ListBlockTypes == {"title", "warning", "step"}
ListOrders == 1..2

ListedBlocks(types, orders) ==
    {DocumentBlockModel(i, 1, types[i], orders[i], <<"a">>, 0, "") : i \in DOMAIN types}

InitAssembleList ==
    /\ documents = [d \in {1} |-> DocumentModel("sop", 1001)]
    /\ \E n \in 0..(MaxCreated - 1) :
         blocks \in {ListedBlocks(types, orders) :
                        types \in [1..n -> ListBlockTypes], orders \in [1..n -> ListOrders]}
    /\ nextBlockId = Cardinality(blocks) + 1
    /\ nextDocId = 2
    /\ autoflush = TRUE
    /\ sharedSession = FALSE
    /\ InitIdle

\* the lists that hold each of the rows once
ListsOf(rows) ==
    {l \in [1..Cardinality(rows) -> rows] : \A i, j \in DOMAIN l : i # j => l[i] # l[j]}

AssembleDocumentList ==
    \E d \in DOMAIN documents, f \in AssemblyFormat :
        \E document_blocks \in ListsOf(DocBlocks(blocks, d)) :
            LET r == assemble_document_list(document_blocks, f)
            IN Answer("assemble_document_list", d, [format |-> f, blocks |-> document_blocks],
                      r.ok, r)

NextAssembleList ==
    \/ AssembleDocumentList

SpecAssembleList == InitAssembleList /\ [][NextAssembleList]_vars

(***************************************************************************)
(* SpecTexts: the text functions applied to the text of one user message   *)
(***************************************************************************)
Vocabulary == {"Call", "name", "About", "describe", "Then", "steps", "x", " ", "."}
MessageTexts == UNION {[1..n -> Vocabulary] : n \in 0..MaxLen}

InitTexts ==
    /\ documents = <<>>
    /\ blocks = {}
    /\ nextBlockId = 1
    /\ nextDocId = 1
    /\ autoflush = TRUE
    /\ sharedSession = FALSE
    /\ threads \in {[t \in Threads |-> [EmptyState EXCEPT !.messages = <<HumanMessage(text)>>]] :
                        text \in MessageTexts}
    /\ pc = "idle"
    /\ turn = NoTurn
    /\ callers = [c \in Callers |-> NoCall]
    /\ last = NoOp
    /\ now = 1

\* a text function is applied to the content of the thread's last message
Content(t) == threads[t].messages[Len(threads[t].messages)].content

Applied(op, messages, result) ==
    /\ last' = [Op(op, 0, 0, TRUE, 0) EXCEPT !.msgs = messages, !.out = result]
    /\ UNCHANGED <<dbVars, now, autoflush, sharedSession, callers, graphVars>>

ClassifyIntent ==
    \E t \in Threads :
        Applied("_classify_intent", threads[t].messages, _classify_intent(Content(t)))

ExtractTitle ==
    \E t \in Threads :
        Applied("_extract_title", threads[t].messages, _extract_title(Content(t)))

ParseSteps ==
    \E t \in Threads :
        Applied("_parse_steps", threads[t].messages, _parse_steps(Content(t)))

NextTexts ==
    \/ ClassifyIntent
    \/ ExtractTitle
    \/ ParseSteps

SpecTexts == InitTexts /\ [][NextTexts]_vars

(***************************************************************************)
(* Properties of the text functions                                        *)
(***************************************************************************)
Given == last.msgs[Len(last.msgs)].content

\* the words of the vocabulary that hold a keyword of each set, whatever their case
HasTitleWord(text) == \E i \in DOMAIN text : text[i] \in {"Call", "name"}
HasDescriptionWord(text) == \E i \in DOMAIN text : text[i] \in {"About", "describe"}
HasStepsWord(text) == \E i \in DOMAIN text : text[i] \in {"Then", "steps"}

\* C16: classify is total and returns one of title, description, steps,
\* ambiguous: title whenever a title keyword occurs, also next to description
\* or steps keywords; description when no title keyword but a description
\* keyword occurs; steps when neither but a steps keyword occurs; ambiguous
\* only when no keyword occurs.
C16_ClassifierPriority ==
    last.op = "_classify_intent"
    => /\ last.out \in {"title", "description", "steps", "ambiguous"}
       /\ HasTitleWord(Given) => last.out = "title"
       /\ (~HasTitleWord(Given) /\ HasDescriptionWord(Given)) => last.out = "description"
       /\ (~HasTitleWord(Given) /\ ~HasDescriptionWord(Given) /\ HasStepsWord(Given))
            => last.out = "steps"
       /\ last.out = "ambiguous"
            <=> ~(HasTitleWord(Given) \/ HasDescriptionWord(Given) \/ HasStepsWord(Given))

\* C16 witness: a text holding a description keyword, a steps keyword and then
\* a title keyword was classified title.
C16_Witness ==
    /\ last.op = "_classify_intent"
    /\ Given = <<"About", "steps", "name">>
    /\ last.out = "title"

(***************************************************************************)
(* Properties of the Block Service                                         *)
(***************************************************************************)
Dense(B, document_id) ==
    LET rows == DocBlocks(B, document_id)
    IN \A i \in 1..Cardinality(rows) : Cardinality({b \in rows : b.block_order = i}) = 1

\* C1: after any sequence of add_block and delete_block calls from an empty
\* document, the order values of each document's blocks are exactly 1..N.
C1_DensityInvariant == \A d \in DOMAIN documents : Dense(blocks, d)

IdsOf(rows) == {b.id : b \in rows}
RowOf(rows, id) == CHOOSE b \in rows : b.id = id

\* C5: add_block(position = p) on a document with orders 1..N and 1 <= p <= N+1
\* yields N+1 blocks: the new block has order p, every block that was at order
\* >= p moved up by exactly one, every block below p is unchanged, and the
\* pre-existing blocks keep their relative order.
C5_InsertAtPosition ==
    LET old == DocBlocks(last.pre, last.doc)
        new == DocBlocks(blocks, last.doc)
        p == last.arg
    IN (last.op = "add_block_at" /\ last.ok /\ Dense(last.pre, last.doc)
            /\ 1 <= p /\ p <= Cardinality(old) + 1)
       => /\ Cardinality(new) = Cardinality(old) + 1
          /\ IdsOf(new) = IdsOf(old) \cup {last.id}
          /\ last.id \notin IdsOf(old)
          /\ RowOf(new, last.id).block_order = p
          /\ \A o \in old :
                RowOf(new, o.id) =
                    [o EXCEPT !.block_order = IF o.block_order >= p THEN o.block_order + 1
                                              ELSE o.block_order]
          /\ \A o1, o2 \in old :
                o1.block_order < o2.block_order
                    => RowOf(new, o1.id).block_order < RowOf(new, o2.id).block_order
          /\ Dense(blocks, last.doc)

\* C5 witness: an insertion in the middle of a dense document of two blocks.
C5_Witness ==
    /\ last.op = "add_block_at" /\ last.ok /\ last.arg = 2
    /\ Dense(last.pre, last.doc)
    /\ Cardinality(DocBlocks(last.pre, last.doc)) = 2
    /\ Cardinality(DocBlocks(blocks, last.doc)) = 3

\* C6: delete_block of the block at order k of a document with orders 1..N
\* leaves N-1 blocks with orders 1..N-1: blocks below k keep their order,
\* blocks above k move down by one, whatever the session's autoflush setting.
C6_DeleteAndRenumber ==
    LET old == DocBlocks(last.pre, last.doc)
        new == DocBlocks(blocks, last.doc)
    IN (last.op = "delete_block" /\ last.ok /\ Dense(last.pre, last.doc))
       => LET k == RowOf(old, last.id).block_order
          IN /\ IdsOf(new) = IdsOf(old) \ {last.id}
             /\ Dense(blocks, last.doc)
             /\ \A o \in old :
                   o.id # last.id =>
                     RowOf(new, o.id) =
                        [o EXCEPT !.block_order = IF o.block_order > k THEN o.block_order - 1
                                                  ELSE o.block_order]

\* C17: add_block and reorder_blocks with a document id that does not exist,
\* and update_block, delete_block and duplicate_block with a block id that does
\* not exist, fail and leave the blocks of every document as they were.
C17_NotFoundLeavesStore ==
    /\ (last.op \in {"add_block", "add_block_at", "reorder_blocks"}
            /\ last.doc \notin DOMAIN documents)
        => ~last.ok /\ blocks = last.pre
    /\ (last.op \in {"update_block", "delete_block", "duplicate_block"}
            /\ last.arg \notin IdsOf(last.pre))
        => ~last.ok /\ blocks = last.pre
    /\ ~last.ok => blocks = last.pre

\* C17 witness: reorder_blocks on a document id that does not exist, naming a
\* block that exists, has failed.
C17_Witness ==
    /\ last.op = "reorder_blocks" /\ ~last.ok
    /\ last.doc \notin DOMAIN documents
    /\ \E b \in blocks : b.id = last.arg[1].block_id /\ b.block_order # last.arg[1].order
    /\ last.arg[1].order # 0

\* C2: after any sequence of Tool Layer operations on a document, no two of its
\* blocks share an order value and the order values are exactly 1..N.
C2_ToolOrderInvariant ==
    \A d \in DOMAIN documents :
        LET rows == DocBlocks(blocks, d)
        IN /\ \A b1, b2 \in rows : b1 # b2 => b1.block_order # b2.block_order
           /\ {b.block_order : b \in rows} = 1..Cardinality(rows)

\* C18: add_safety_block with a safety_type that is not ppe_required, warning
\* or caution, compared case-insensitively, fails and leaves the document's
\* blocks unchanged; with a valid subtype it adds exactly one block of the
\* mapped type at order max existing order + 1, or 1 on an empty document.
C18_SafetySubtype ==
    last.op = "add_safety_block"
    => LET mapped == CASE last.arg \in {"ppe_required", "PPE_REQUIRED"} -> "ppe_required"
                       [] last.arg \in {"warning", "WARNING", "Warning"} -> "warning"
                       [] last.arg \in {"caution", "CAUTION", "Caution"} -> "caution"
                       [] OTHER -> ""
           old == DocBlocks(last.pre, last.doc)
           orders == {b.block_order : b \in old}
       IN IF mapped = ""
          THEN ~last.ok /\ blocks = last.pre
          ELSE /\ last.ok
               /\ last.pre \subseteq blocks
               /\ Cardinality(blocks \ last.pre) = 1
               /\ \A b \in blocks \ last.pre :
                     /\ b.id = last.id /\ b.document_id = last.doc
                     /\ b.block_type = mapped
                     /\ old = {} => b.block_order = 1
                     /\ old # {} => /\ b.block_order - 1 \in orders
                                    /\ \A o \in orders : o < b.block_order

\* C18 witness: after a rejected subtype left a document of two blocks as it
\* was, an upper-case WARNING was added to it as a warning block.
C18_Witness ==
    /\ last.op = "add_safety_block" /\ last.arg = "WARNING" /\ last.ok
    /\ Cardinality(DocBlocks(last.pre, last.doc)) = 2
    /\ \E b \in blocks \ last.pre : b.block_type = "warning" /\ b.block_order = 3

(***************************************************************************)
(* Properties of the Document Assembler                                    *)
(***************************************************************************)
TypesPresent(B, document_id) == {b.block_type : b \in DocBlocks(B, document_id)}

\* C11: validate_document_structure returns is_valid exactly when every block
\* type the template of the document's type requires occurs among the
\* document's blocks; missing_required lists exactly the required types that
\* do not occur, in template order; a type without a template is always valid.
C11_ValidationCompleteness ==
    last.op = "validate_document_structure"
    => LET required == RequiredBlocks(documents[last.doc].document_type)
           present == TypesPresent(blocks, last.doc)
           missing == last.out.missing_required
           absent == {i \in DOMAIN required : required[i] \notin present}
       IN /\ last.out.is_valid <=> (\A i \in DOMAIN required : required[i] \in present)
          /\ last.ok = last.out.is_valid
          /\ Len(missing) = Cardinality(absent)
          /\ \A i \in absent :
                missing[Cardinality({j \in absent : j <= i})] = required[i]
          /\ documents[last.doc].document_type \notin {"sop", "procedure", "checklist"}
                => last.out.is_valid /\ missing = <<>>
          /\ documents[last.doc].document_type = "procedure"
                => (last.out.is_valid <=> {"title", "description", "step"} \subseteq present)

\* C11 witness: a procedure holding only a description was found invalid,
\* missing title and step in that order.
C11_Witness ==
    /\ last.op = "validate_document_structure"
    /\ documents[last.doc].document_type = "procedure"
    /\ TypesPresent(blocks, last.doc) = {"description"}
    /\ ~last.out.is_valid
    /\ last.out.missing_required = <<"title", "step">>

\* C19: an assembly request whose format is none of html, markdown,
\* plain_text and json fails and yields no content, for the assembler's
\* assemble_document and for the Tool Layer operation that wraps it.
C19_ClosedFormatSelection ==
    (/\ last.op \in {"assemble_document", "tools_assemble_document"}
     /\ last.doc \in DOMAIN documents
     /\ last.arg \notin {"html", "markdown", "plain_text", "json"})
    => ~last.ok /\ last.out.content = <<>>

\* C20: for every supported format value of the assemble request, the preview
\* assemble returns is the document rendered in that format.
C20_AssembleHonoursFormat ==
    (/\ last.op = "assemble" /\ last.ok
     /\ last.arg \in {"html", "markdown", "plain_text", "json"})
    => \E r \in assemble_document(DocBlocks(blocks, last.doc), last.arg) :
            r.ok /\ last.out.preview = r.content

(***************************************************************************)
(* Properties of the orchestration graph                                   *)
(***************************************************************************)
LeafNodes == {"interviewer", "writer", "researcher", "qc"}
Occurrences(seq, S) == Cardinality({i \in DOMAIN seq : seq[i] \in S})
Bound == threads[turn.thread].document_id
IsValid(B, document_id) ==
    validate_document_structure(documents[document_id].document_type,
                                DocBlocks(B, document_id)).is_valid
MissingNow(document_id) ==
    validate_document_structure(documents[document_id].document_type,
                                DocBlocks(blocks, document_id)).missing_required

\* C3: within one start or message call the graph dispatches from supervisor at
\* most once and executes at most one leaf node; no node is entered twice.
C3_OneCyclePerCall ==
    /\ Occurrences(turn.nodes, {"supervisor"}) <= 1
    /\ Occurrences(turn.nodes, LeafNodes) <= 1

\* C4: every turn reaches end or returns control to the caller after finitely
\* many node executions: no run goes on until the framework's step limit stops it.
C4_TurnTermination == turn.outcome # "recursion_error"

\* C7: supervisor selects interviewer when no document is bound; otherwise, when
\* the last message is the user's, writer for the intents title, description and
\* steps and interviewer for ambiguous; otherwise qc; and no other node.
C7_SupervisorRouting ==
    LET msgs == last.msgs
        from_user == msgs # <<>> /\ msgs[Len(msgs)].role = "human"
        intent == IF msgs # <<>> THEN _classify_intent(msgs[Len(msgs)].content) ELSE "none"
    IN last.op = "supervisor"
       => /\ last.goto \in {"interviewer", "writer", "qc"}
          /\ last.doc = 0 => last.goto = "interviewer"
          /\ (last.doc # 0 /\ from_user /\ intent \in {"title", "description", "steps"})
                => last.goto = "writer"
          /\ (last.doc # 0 /\ from_user /\ intent = "ambiguous") => last.goto = "interviewer"
          /\ (last.doc # 0 /\ ~from_user) => last.goto = "qc"

\* C7 witness: with a document bound, supervisor has sent an ambiguous user
\* message to interviewer.
C7_Witness ==
    /\ last.op = "supervisor" /\ last.doc # 0 /\ last.goto = "interviewer"
    /\ last.msgs # <<>> /\ last.msgs[Len(last.msgs)].role = "human"
    /\ _classify_intent(last.msgs[Len(last.msgs)].content) = "ambiguous"

LastHuman(msgs) ==
    msgs[SetMax({i \in DOMAIN msgs : msgs[i].role = "human"})].content

\* writer has just handled a user message of this intent
WriterHandled(intent) ==
    /\ last.op = "writer" /\ last.ok
    /\ \E i \in DOMAIN last.msgs : last.msgs[i].role = "human"
    /\ _classify_intent(LastHuman(last.msgs)) = intent

\* C12: after writer handles a user message of intent title, the bound document
\* has exactly one TITLE block, at order 1, whose text is the input without
\* surrounding whitespace and trailing periods when that has at least two
\* words and the raw input otherwise; a second title message replaces the text
\* of the same block and creates no block.
C12_WriterTitleUpsert ==
    WriterHandled("title")
    => LET content == LastHuman(last.msgs)
           trimmed == RStripTok(Strip(content), ".")
           expected == IF WordCount(trimmed) >= 2 THEN trimmed ELSE content
           before == OfType(last.pre, last.doc, "title")
           after == OfType(blocks, last.doc, "title")
       IN /\ Cardinality(after) = 1
          /\ \A b \in after :
                /\ b.block_order = 1
                /\ b.text = expected
                /\ content = TitleText => b.text = <<"Call", " ", "it", " ", "x">>
                /\ content = ShortTitleText => b.text = ShortTitleText
          /\ before # {} => IdsOf(after) = IdsOf(before) /\ IdsOf(blocks) = IdsOf(last.pre)
          /\ before = {} => IdsOf(blocks) = IdsOf(last.pre) \cup IdsOf(after)
          /\ \A b \in last.pre : b.block_type # "title" => b \in blocks

\* C12 witness: a second title message has replaced the text of the title
\* block by an extracted title.
C12_Witness ==
    /\ WriterHandled("title")
    /\ LastHuman(last.msgs) = TitleText
    /\ \E b \in OfType(last.pre, last.doc, "title") : b.text = ShortTitleText
    /\ \E b \in OfType(blocks, last.doc, "title") : b.text = <<"Call", " ", "it", " ", "x">>

\* C13: when writer handles a steps message that splits into n non-empty
\* trimmed segments, on a document with no STEP block, it creates exactly n
\* STEP blocks numbered 1..n whose descriptions are the segments in input
\* order, with order values increasing with step_number.
C13_WriterSteps ==
    (WriterHandled("steps") /\ OfType(last.pre, last.doc, "step") = {})
    => LET content == LastHuman(last.msgs)
           segments == _parse_steps(content)
           created == blocks \ last.pre
       IN /\ last.pre \subseteq blocks
          /\ Cardinality(created) = Len(segments)
          /\ \A b \in created : b.document_id = last.doc /\ b.block_type = "step"
          /\ \A i \in DOMAIN segments :
                Cardinality({b \in created : b.step_number = i /\ b.text = segments[i]}) = 1
          /\ \A b1, b2 \in created :
                b1.step_number < b2.step_number => b1.block_order < b2.block_order
          /\ content = StepsText
                => segments = << <<"First", " ", "a">>, <<"Then", " ", "b">> >>

\* C13 witness: writer has created the two steps of a two-sentence message.
C13_Witness ==
    /\ WriterHandled("steps") /\ OfType(last.pre, last.doc, "step") = {}
    /\ LastHuman(last.msgs) = StepsText
    /\ Cardinality(OfType(blocks, last.doc, "step")) = 2

IsPrefix(s, t) == Len(s) <= Len(t) /\ SubSeq(t, 1, Len(s)) = s

Appends(before, after) ==
    /\ IsPrefix(before.messages, after.messages)
    /\ IsPrefix(before.visited_nodes, after.visited_nodes)

\* C14: every execution of a node leaves the message log and the visited-node
\* trace it received as prefixes of those it returns: a node only appends.
C14_AppendOnlyNodeUpdates ==
    /\ (last.op \in {"supervisor", "interviewer", "writer", "qc"} /\ turn.nodes # <<>>)
        => /\ Appends([messages |-> last.msgs, visited_nodes |-> last.trace],
                      threads[turn.thread])
           /\ Len(threads[turn.thread].messages) <= Len(last.msgs) + 1
           /\ last.ok => threads[turn.thread].visited_nodes = Append(last.trace, last.op)
    /\ \A t \in Threads :
          \A c \in researcher_node(threads[t], Database) :
             /\ Appends(threads[t], c.state)
             /\ c.state.visited_nodes = Append(threads[t].visited_nodes, "researcher")

\* C14 witness: qc has run on a log of three messages and a trace of three
\* nodes and appended to both.
C14_Witness ==
    /\ last.op = "qc" /\ turn.nodes # <<>> /\ Len(last.msgs) >= 3 /\ Len(last.trace) >= 3
    /\ Len(threads[turn.thread].messages) = Len(last.msgs) + 1
    /\ Len(threads[turn.thread].visited_nodes) = Len(last.trace) + 1

\* what the routing rule reads of a state
RoutingKey(state) ==
    LET bound == state.document_id # 0
        from_user == state.messages # <<>>
                        /\ state.messages[Len(state.messages)].role = "human"
    IN <<bound, bound /\ from_user,
         IF bound /\ from_user
         THEN _classify_intent(state.messages[Len(state.messages)].content) ELSE "">>

OtherLogs ==
    {<<>>} \cup
    {earlier \o <<m>> :
        earlier \in {<<>>, <<AIMessage(Greeting)>>, <<HumanMessage(StepsText)>>},
        m \in {HumanMessage(t) : t \in Texts} \cup {AIMessage(Greeting), AIMessage(TitleText)}}

OtherStates ==
    [document_id : 0..2, messages : OtherLogs,
     visited_nodes : {<<>>, <<"supervisor", "writer">>}, open_questions : {<<>>, <<1>>}]

\* the routes supervisor takes from those states, on another database
OtherRoutes ==
    UNION {{<<RoutingKey(other), c.goto>> :
                c \in supervisor(other, [documents |-> <<>>, nextDocId |-> 1,
                                         blocks |-> {}, nextBlockId |-> 1])} :
           other \in OtherStates}

\* C15: two runs of supervisor on states that agree on whether a document is
\* bound, on the role of the last message and on the intent of its text select
\* the same next node, whatever else differs; and one state admits one choice.
C15_RoutingDeterminism ==
    last.op = "supervisor"
    => LET state == [document_id |-> last.doc, messages |-> last.msgs,
                     visited_nodes |-> last.trace,
                     open_questions |-> threads[turn.thread].open_questions]
       IN /\ \A c \in supervisor(state, Database) : c.goto = last.goto
          /\ \A route \in OtherRoutes :
                route[1] = RoutingKey(state) => route[2] = last.goto

\* C15 witness: supervisor has routed a steps message to writer in the third
\* call of a thread, on a state that differs from the states it is compared to.
C15_Witness ==
    /\ last.op = "supervisor" /\ last.goto = "writer" /\ turn.n = 3
    /\ Len(last.msgs) >= 3
    /\ _classify_intent(last.msgs[Len(last.msgs)].content) = "steps"

\* C8: after a start call on a fresh thread with no prior document, exactly one
\* new document exists and is bound to the thread, it holds exactly one QUESTION
\* block, open, whose id is the thread's whole open-question list, and the
\* greeting is the assistant's text.
C8_ScenarioA ==
    (pc = "idle" /\ turn.kind = "start" /\ turn.fresh /\ turn.docs = {})
    => LET state == threads[turn.thread]
           created == DOMAIN documents \ turn.docs
           rows == DocBlocks(blocks, state.document_id)
       IN /\ Cardinality(created) = 1
          /\ state.document_id \in created
          /\ Cardinality(rows) = 1
          /\ \A b \in rows : /\ b.block_type = "question"
                             /\ b.status = "open"
                             /\ state.open_questions = <<b.id>>
          /\ state.messages # <<>> /\ state.messages[1] = AIMessage(Greeting)

\* C9: a turn in which qc runs on a bound document that misses k >= 1 required
\* block types creates exactly k "Please provide" QUESTION blocks, open, one per
\* missing type.
C9_QcIncompleteTurn ==
    (pc = "idle" /\ Occurrences(turn.nodes, {"qc"}) >= 1 /\ Bound \in DOMAIN documents
        /\ Len(MissingNow(Bound)) >= 1)
    => LET missing == MissingNow(Bound)
           asked == {b \in blocks \ turn.pre :
                        /\ b.document_id = Bound /\ b.block_type = "question"
                        /\ Len(b.text) = 2 /\ b.text[1] = "Please provide"}
       IN /\ Cardinality(asked) = Len(missing)
          /\ \A b \in asked : b.status = "open"
          /\ \A i \in DOMAIN missing :
                Cardinality({b \in asked : b.text = PleaseProvide(missing[i])}) = 1

\* C10: qc on a bound document that validation finds complete creates no block,
\* appends exactly the completion message and routes to end, where the turn
\* ends; so a turn whose writer supplied the last missing required block type
\* is supervisor, writer, supervisor, qc and ends at end.
C10_QcComplete ==
    /\ (/\ last.op = "qc" /\ turn.nodes # <<>> /\ turn.nodes[Len(turn.nodes)] = "qc"
        /\ last.doc \in DOMAIN documents /\ IsValid(last.pre, last.doc))
       => /\ blocks = last.pre
          /\ threads[turn.thread].messages = Append(last.msgs, AIMessage(Completion))
          /\ last.goto = "__end__"
          /\ pc \in {"__end__", "idle"}
          /\ pc = "idle" => turn.outcome = "end"
    /\ (/\ Len(turn.nodes) >= 4 /\ turn.nodes[2] = "writer"
        /\ Bound \in DOMAIN documents
        /\ ~IsValid(turn.pre, Bound) /\ IsValid(blocks, Bound))
       => /\ turn.nodes = <<"supervisor", "writer", "supervisor", "qc">>
          /\ pc \in {"__end__", "idle"}
          /\ pc = "idle" => turn.outcome = "end"

\* C10 witness: a message turn in which writer completed the document has ended
\* at end.
C10_Witness ==
    /\ pc = "idle" /\ turn.outcome = "end" /\ last.op = "qc"
    /\ turn.nodes = <<"supervisor", "writer", "supervisor", "qc">>
    /\ ~IsValid(turn.pre, Bound) /\ IsValid(blocks, Bound)

(***************************************************************************)
(* Trace diagram                                                           *)
(***************************************************************************)
\* the edges a diagram of this trace has: one per pair of consecutive entries
EdgesOf(visited_nodes) ==
    [i \in 1..(Len(visited_nodes) - 1) |-> <<visited_nodes[i], "-->", visited_nodes[i + 1]>>]

\* C21: the trace diagram an assemble call writes for thread t has, after its
\* "graph TD" line, exactly one edge a --> b per pair of consecutive entries of
\* the visited-node trace recorded for t, in order.
C21_TraceReflectsHistory ==
    (last.op = "assemble" /\ last.ok) =>
        Tail(last.out.trace.lines) = EdgesOf(threads[last.arg].visited_nodes)

C23_StableDocumentBinding ==
    (turn.kind = "message" /\ turn.bound # 0) =>
        /\ Bound = turn.bound
        /\ DOMAIN documents = turn.docs

\* C24: the visited-node trace the thread holds at the end of a message turn
\* has the trace it held at the end of the previous turn as a prefix.
C24_TracePersists ==
    (turn.kind = "message" /\ pc = "idle" /\ turn.outcome = "end") =>
        IsPrefix(turn.trace, threads[turn.thread].visited_nodes)

OpenQuestions(B, document_id) ==
    {b.id : b \in {q \in DocBlocks(B, document_id) :
                      q.block_type = "question" /\ q.status = "open"}}

ListedQuestions(state) == {state.open_questions[i] : i \in DOMAIN state.open_questions}

\* C28: at the end of a turn the thread's open-question list holds the id of
\* every open QUESTION block of the thread's document, whichever node and turn
\* created it, and only ids of QUESTION blocks of that document.
C28_OpenQuestionTracking ==
    (pc = "idle" /\ turn.outcome = "end") =>
        /\ OpenQuestions(blocks, Bound) \subseteq ListedQuestions(threads[turn.thread])
        /\ ListedQuestions(threads[turn.thread]) \subseteq
              {b.id : b \in {q \in DocBlocks(blocks, Bound) : q.block_type = "question"}}

(***************************************************************************)
(* The interviewer step                                                    *)
(***************************************************************************)
\* C29: an execution of interviewer appends exactly one assistant message,
\* creates exactly one open QUESTION block in the bound document, appends that
\* block's id to the open-question list, creates and binds a document exactly
\* when none was bound on entry and otherwise keeps the bound id, asks the
\* greeting exactly when none was bound on entry, and routes to supervisor.
C29_InterviewerStep ==
    (turn.nodes # <<>> /\ last.op = "interviewer") =>
        LET state == threads[turn.thread]
            asked == state.messages[Len(state.messages)]
            created == blocks \ last.pre
        IN /\ last.goto = "supervisor"
           /\ state.messages = Append(last.msgs, asked)
           /\ asked.role = "ai"
           /\ last.pre \subseteq blocks
           /\ Cardinality(created) = 1
           /\ \A b \in created :
                 /\ b.block_type = "question" /\ b.status = "open"
                 /\ b.document_id = state.document_id
                 /\ b.text = asked.content
                 /\ state.open_questions = Append(last.questions, b.id)
           /\ last.docs \subseteq DOMAIN documents
           /\ IF last.doc = 0
              THEN /\ Cardinality(DOMAIN documents \ last.docs) = 1
                   /\ state.document_id \in DOMAIN documents \ last.docs
                   /\ asked.content = Greeting
              ELSE /\ DOMAIN documents = last.docs
                   /\ state.document_id = last.doc
                   /\ asked.content # Greeting

\* interviewer ran on a thread with no document and created and bound one
C29_Witness ==
    /\ turn.nodes # <<>> /\ last.op = "interviewer" /\ last.doc = 0
    /\ Bound \in DOMAIN documents \ last.docs
    /\ threads[turn.thread].open_questions # <<>>

\* interviewer ran on a thread that already had its document
C29_WitnessBound ==
    /\ turn.nodes # <<>> /\ last.op = "interviewer" /\ last.doc # 0
    /\ Bound = last.doc

(***************************************************************************)
(* Operations and the documents they are invoked for                       *)
(***************************************************************************)
ServiceOps == {"add_block", "add_block_at", "delete_block", "update_block",
               "reorder_blocks", "duplicate_block"}

\* C26: a Block Service operation invoked for document d leaves the blocks of
\* every other document as they were; reorder_blocks(d, entries) changes the
\* order of blocks of d only, whatever block ids the entries name.
C26_NoOperationSpansDocuments ==
    (last.op \in ServiceOps /\ last.ok) =>
        {b \in blocks : b.document_id # last.doc} = {b \in last.pre : b.document_id # last.doc}

(***************************************************************************)
(* Blocks and the documents they name                                      *)
(***************************************************************************)
ToolInsertions == {"add_question", "add_or_update_title", "add_or_update_description",
                   "add_or_update_step", "insert_step_before", "add_safety_block"}

\* C27: every block's document_id identifies an existing document, and an
\* insertion given a document id that does not exist fails and creates no
\* block, in the Tool Layer as in BlockService.add_block.
C27_ReferentialIntegrity ==
    /\ \A b \in blocks : b.document_id \in DOMAIN documents
    /\ (last.op \in ToolInsertions \cup {"add_block"} /\ last.doc \notin DOMAIN documents) =>
          ~last.ok /\ blocks = last.pre

(***************************************************************************)
(* Step numbers and block order                                            *)
(***************************************************************************)
\* C30: listing a document's STEP blocks by ascending block order lists them
\* by ascending step_number, and the step created by insert_step_before(k)
\* stands before the steps that carry numbers greater than k.
C30_StepNumbersFollowOrder ==
    /\ \A d \in DOMAIN documents :
          \A b1, b2 \in OfType(blocks, d, "step") :
              b1.block_order < b2.block_order => b1.step_number <= b2.step_number
    /\ (last.op = "insert_step_before" /\ last.ok) =>
          \A b \in OfType(blocks, last.doc, "step") :
              b.step_number > last.arg =>
                  \A new \in blocks \ last.pre :
                      new.id = last.id => new.block_order < b.block_order

(***************************************************************************)
(* Two overlapping appends                                                 *)
(***************************************************************************)
Finished(c) == callers[c].pc = "done"

\* C25: when two append-at-end insertions on one document overlap, so that
\* both read the highest order before either inserts, both read the same
\* value and their two blocks share one order; when they run one after the
\* other, their blocks get distinct consecutive orders.
C25_AppendRace ==
    \A c1, c2 \in Callers :
        (c1 # c2 /\ Finished(c1) /\ Finished(c2) /\ callers[c1].doc = callers[c2].doc) =>
            LET b1 == RowOf(blocks, callers[c1].id)
                b2 == RowOf(blocks, callers[c2].id)
            IN IF callers[c1].overlapped
               THEN /\ callers[c1].order = callers[c2].order
                    /\ b1.block_order = b2.block_order
               ELSE \/ b2.block_order = b1.block_order + 1
                    \/ b1.block_order = b2.block_order + 1

\* both callers read the same highest order and the document holds their two
\* blocks at one order
C25_Witness ==
    /\ \A c \in Callers : Finished(c) /\ callers[c].overlapped
    /\ callers["c1"].doc = callers["c2"].doc
    /\ callers["c1"].order = callers["c2"].order
    /\ RowOf(blocks, callers["c1"].id).block_order = RowOf(blocks, callers["c2"].id).block_order

(***************************************************************************)
(* Step numbers                                                            *)
(***************************************************************************)
StepNumbersOf(B, document_id) == {b.step_number : b \in OfType(B, document_id, "step")}

\* C31: no two STEP blocks of a document carry the same step_number;
\* insert_step_before(k) raises every number >= k by one and numbers the new
\* step k; delete_step(k) removes exactly the step numbered k and renumbers the
\* survivors 1..M in their previous step order; delete_step of a number no
\* step carries returns ok = false and changes nothing.
C31_StepNumbersUnique ==
    /\ \A d \in DOMAIN documents :
          \A b1, b2 \in OfType(blocks, d, "step") :
              b1 # b2 => b1.step_number # b2.step_number
    /\ (last.op = "insert_step_before" /\ last.ok) =>
          /\ \A old \in OfType(last.pre, last.doc, "step") :
                \E b \in blocks :
                    /\ b.id = old.id
                    /\ b.step_number = IF old.step_number >= last.arg
                                       THEN old.step_number + 1 ELSE old.step_number
          /\ \E new \in blocks \ last.pre :
                new.id = last.id /\ new.block_type = "step" /\ new.step_number = last.arg
    /\ (last.op = "delete_step" /\ last.ok) =>
          LET before == OfType(last.pre, last.doc, "step")
              after == OfType(blocks, last.doc, "step")
          IN /\ IdsOf(before) \ IdsOf(after) = {last.id}
             /\ RowOf(before, last.id).step_number = last.arg
             /\ StepNumbersOf(blocks, last.doc) = 1..Cardinality(after)
             /\ \A x, y \in after :
                   RowOf(before, x.id).step_number < RowOf(before, y.id).step_number
                       => x.step_number < y.step_number
    /\ (last.op = "delete_step" /\ ~last.ok) =>
          /\ blocks = last.pre
          /\ last.arg \notin StepNumbersOf(last.pre, last.doc)

(***************************************************************************)
(* Title and description upserts                                           *)
(***************************************************************************)
UpsertType(op) == IF op = "add_or_update_title" THEN "title" ELSE "description"

\* C32: a document has at most one TITLE and at most one DESCRIPTION block;
\* after an upsert the block of that type holds the text of the call and every
\* other block is as before; an upsert that finds its block creates no block
\* and changes no block's order.
C32_UpsertIdempotent ==
    /\ \A d \in DOMAIN documents :
          /\ Cardinality(OfType(blocks, d, "title")) <= 1
          /\ Cardinality(OfType(blocks, d, "description")) <= 1
    /\ (last.op \in {"add_or_update_title", "add_or_update_description"} /\ last.ok) =>
          LET had == OfType(last.pre, last.doc, UpsertType(last.op))
          IN /\ \A b \in OfType(blocks, last.doc, UpsertType(last.op)) :
                   b.id = last.id /\ b.text = last.arg
             /\ \A b \in blocks : b.id # last.id => b \in last.pre
             /\ \A b \in last.pre : b.id # last.id => b \in blocks
             /\ had # {} =>
                   /\ IdsOf(blocks) = IdsOf(last.pre)
                   /\ \A b \in blocks : b.block_order = RowOf(last.pre, b.id).block_order

\* an upsert found its block, holding another text, among other blocks
C32_Witness ==
    /\ last.op = "add_or_update_description" /\ last.ok
    /\ \E old \in OfType(last.pre, last.doc, "description") :
          old.id = last.id /\ old.text # last.arg
    /\ OfType(blocks, last.doc, "title") # {}
    /\ Cardinality(blocks) >= 3

(***************************************************************************)
(* Document keys and versions                                              *)
(***************************************************************************)
WithKey(D, document_key) == {d \in DOMAIN D : D[d].document_key = document_key}

\* C33: no two documents share a (document_key, version) pair, also when two
\* documents are created without a key in the same clock second; a call with a
\* key that already exists returns the highest-version document of that key
\* and creates no document.
C33_KeyVersionUnique ==
    /\ \A d1, d2 \in DOMAIN documents :
          d1 # d2 => \/ documents[d1].document_key # documents[d2].document_key
                     \/ documents[d1].version # documents[d2].version
    /\ (last.op = "create_or_get_document" /\ last.arg # 0
          /\ \E d \in last.docs : documents[d].document_key = last.arg) =>
          /\ DOMAIN documents = last.docs
          /\ last.id \in WithKey(documents, last.arg)
          /\ \A d \in WithKey(documents, last.arg) :
                documents[d].version <= documents[last.id].version

(***************************************************************************)
(* reorder_blocks, duplicate_block, update_block                           *)
(***************************************************************************)
NamedIn(L) == {L[i].block_id : i \in DOMAIN L}
LastEntry(L, block_id) ==
    L[SetMax({i \in DOMAIN L : L[i].block_id = block_id})]

\* C34: after reorder_blocks(d, L) on an existing document every existing block
\* named in L has the order value L gives for it (the last entry for the block),
\* for every integer value; blocks not named keep their order; no block is
\* created or removed; a permutation of 1..N over all N blocks of d gives a
\* dense document.
C34_ReorderVerbatim ==
    (last.op = "reorder_blocks" /\ last.ok) =>
        /\ IdsOf(blocks) = IdsOf(last.pre)
        /\ \A b \in blocks :
              IF b.id \in NamedIn(last.arg)
              THEN b.block_order = LastEntry(last.arg, b.id).order
              ELSE b.block_order = RowOf(last.pre, b.id).block_order
        /\ LET rows == DocBlocks(last.pre, last.doc)
           IN (/\ IdsOf(rows) = NamedIn(last.arg)
               /\ {LastEntry(last.arg, id).order : id \in IdsOf(rows)} = 1..Cardinality(rows))
                  => Dense(blocks, last.doc)

\* the content of a row
ContentOf(b) == <<b.text, b.step_number, b.status>>

\* C35: duplicate_block(b) adds exactly one block to b's document, of b's type
\* and content, at the highest existing order + 1, and leaves every block as
\* it was; a later update_block of one of two blocks of equal content leaves
\* the other as it was.
C35_DuplicateIndependentCopy ==
    /\ (last.op = "duplicate_block" /\ last.ok) =>
          LET original == RowOf(last.pre, last.arg)
              added == blocks \ last.pre
          IN /\ last.pre \subseteq blocks
             /\ Cardinality(added) = 1
             /\ \A copy \in added :
                   /\ copy.id = last.id /\ copy.id \notin IdsOf(last.pre)
                   /\ copy.document_id = original.document_id
                   /\ copy.block_type = original.block_type
                   /\ ContentOf(copy) = ContentOf(original)
                   /\ copy.block_order = NextOrder(last.pre, original.document_id)
    /\ (last.op = "update_block" /\ last.ok) =>
          \A twin \in last.pre :
              (twin.id # last.id /\ ContentOf(twin) = ContentOf(RowOf(last.pre, last.id)))
                  => twin \in blocks

\* a block was duplicated in a document of several blocks, not the last one
C35_Witness ==
    /\ last.op = "duplicate_block" /\ last.ok
    /\ Cardinality(DocBlocks(last.pre, last.doc)) >= 2
    /\ RowOf(last.pre, last.arg).block_order < NextOrder(last.pre, last.doc) - 1
    /\ RowOf(blocks, last.id).block_order = NextOrder(last.pre, last.doc)

\* the copy was updated and the original kept its content
C35_WitnessUpdatedCopy ==
    /\ last.op = "update_block" /\ last.ok
    /\ \E twin \in blocks :
          /\ twin.id < last.id
          /\ ContentOf(twin) = ContentOf(RowOf(last.pre, last.id))
          /\ ContentOf(twin) # ContentOf(RowOf(blocks, last.id))

\* C36: update_block on an existing block changes that block's content only:
\* its order, type and document, the number of blocks and every other block
\* are as before.
C36_UpdateFrame ==
    (last.op = "update_block" /\ last.ok) =>
        LET old == RowOf(last.pre, last.id)
            new == RowOf(blocks, last.id)
        IN /\ last.id = last.arg
           /\ IdsOf(blocks) = IdsOf(last.pre)
           /\ Cardinality(blocks) = Cardinality(last.pre)
           /\ new.block_order = old.block_order
           /\ new.block_type = old.block_type
           /\ new.document_id = old.document_id
           /\ new.text = <<"y">>
           /\ blocks \ {new} = last.pre \ {old}

\* a block that was not first in its document got new content
C36_Witness ==
    /\ last.op = "update_block" /\ last.ok
    /\ RowOf(blocks, last.id).block_order > 1
    /\ RowOf(blocks, last.id).text # RowOf(last.pre, last.id).text
    /\ Cardinality(blocks) >= 2

C38_ResearcherUnreachable ==
    /\ pc # "researcher"
    /\ last.goto # "researcher"
    /\ \A i \in DOMAIN turn.nodes : turn.nodes[i] # "researcher"
    /\ \A t \in Threads :
          \A i \in DOMAIN threads[t].visited_nodes : threads[t].visited_nodes[i] # "researcher"

\* supervisor dispatched an unclassified message of a bound thread
C38_Witness ==
    /\ turn.nodes # <<>> /\ last.op = "supervisor" /\ last.doc # 0
    /\ last.msgs # <<>> /\ last.msgs[Len(last.msgs)].role = "human"
    /\ _classify_intent(last.msgs[Len(last.msgs)].content) = "ambiguous"
    /\ pc = "interviewer"

(***************************************************************************)
(* Assembly and block order                                                *)
(***************************************************************************)
\* the parts of an assembled content that precede and follow the block elements
HeaderParts(format_type) == IF format_type = "html" THEN 1 ELSE 2
FooterParts(format_type) == IF format_type = "html" THEN 1 ELSE 0

\* the block elements of an assembled content of n blocks
Elements(content, format_type, n) ==
    SubSeq(content, HeaderParts(format_type) + 1, HeaderParts(format_type) + n)

\* p lists the positions of list in ascending block order, equal orders in
\* list order
StableOrder(list, p) ==
    /\ \A i, j \in DOMAIN p : i # j => p[i] # p[j]
    /\ \A i, j \in DOMAIN p :
          i < j => \/ list[p[i]].block_order < list[p[j]].block_order
                   \/ /\ list[p[i]].block_order = list[p[j]].block_order
                      /\ p[i] < p[j]

C39_WitnessTie ==
    /\ last.op = "assemble_document_list" /\ last.ok
    /\ Len(last.arg.blocks) = 2
    /\ last.arg.blocks[1].block_order = last.arg.blocks[2].block_order
    /\ last.arg.blocks[1].id > last.arg.blocks[2].id
    /\ last.arg.blocks[1].block_type # last.arg.blocks[2].block_type
    /\ Elements(last.out.content, last.arg.format, 2)[1][2] = last.arg.blocks[1].block_type

====
